---- MODULE Spec2Model ----
(***************************************************************************)
(* Genotype-to-effect resolution and polygenic scoring of gene-tools.       *)
(*                                                                          *)
(*   athletic_score.py   AthleticScorer   additive (log odds ratio) scorer  *)
(*   cognitive_score.py  CognitiveScorer  continuous per-allele scorer      *)
(*   analyze_dna.py      get_genotype_interpretation   table resolver       *)
(*                                                                          *)
(* Representation.  A genotype string is a sequence of one-character        *)
(* tokens.  Real numbers are fixed point: log odds ratios, scores, betas    *)
(* and their sums are integers in units of 10^-6 (Micro); effect sizes are  *)
(* integers in units of 10^-2; allele frequencies are in percent; p-values  *)
(* are integers in units of 10^-8.                                          *)
(***************************************************************************)
EXTENDS Integers, Sequences, FiniteSets, TLC

VARIABLES
    snps_data,      \* AthleticScorer.snps_data: rsid -> row of the genotype store
    hash_seed,      \* the process's string hash seed (fixes set iteration order)
    missing_snps,   \* AthleticScorer.missing_snps
    returned,       \* the dicts calculate_polygenic_score has returned, in call order
    snp_out,        \* what the last direct call of calculate_snp_score returned
    custom_snp,     \* an AthleticSNP constructed beside the catalog, if any
    gwas_file,      \* the rows of the summary-statistics file (EA_GWAS.txt)
    user_snps,      \* CognitiveScorer.snps_data.snps: rsid -> row
    sumstats,       \* CognitiveScorer.sumstats: None, or the loaded table
    cog_call,       \* the arguments of the last call of calculate_polygenic_score
    cog_result,     \* the dict that call returned
    cog_report,     \* the outcome of the last call of analyze_cognitive_score
    gi_genotype,    \* the genotype get_genotype_interpretation is called with
    gi_data,        \* the marker's table it is called with: genotype -> entry
    gi_result,      \* what the call returned
    vote_markers,   \* the diagnostic markers handed to classify, in catalog order
    vote_calls,     \* the genotype store classify reads: marker id -> call
    vote_result,    \* what classify returned
    foxo_snps,      \* snps_obj.snps as predict_foxo3_from_ld reads it: rsid -> row
    foxo_result     \* the outcome of the last call of interpret_apoe_foxo3

athleticVars == <<snps_data, hash_seed, missing_snps, returned, snp_out, custom_snp>>

cognitiveVars == <<gwas_file, user_snps, sumstats, cog_call, cog_result, cog_report>>

interpVars == <<gi_genotype, gi_data, gi_result>>

classifyVars == <<vote_markers, vote_calls, vote_result>>

foxoVars == <<foxo_snps, foxo_result>>

vars == <<athleticVars, cognitiveVars, interpVars, classifyVars, foxoVars>>

----------------------------------------------------------------------------
(* Bounds of the model *)

\* longest genotype string the store holds for the marker under study
MaxLen == 2

\* calls of calculate_polygenic_score on one AthleticScorer
MaxCalls == 2

\* rows of the largest summary-statistics table
MaxRows == 100

\* rows of a summary-statistics table that are also in the genotype store
MaxInStore == 3

\* genotype keys of a marker's interpretation table
MaxKeys == 2

----------------------------------------------------------------------------
(* Tokens and genotype strings *)

Bases == {"A", "C", "G", "T"}

RECURSIVE StringsUpTo(_, _)
StringsUpTo(alphabet, n) ==
    IF n = 0 THEN {<<>>}
    ELSE LET shorter == StringsUpTo(alphabet, n - 1)
         IN  shorter \cup {Append(s, c) : s \in {t \in shorter : Len(t) = n - 1}, c \in alphabet}

\* genotype strings over {A,C,G,T}, non-empty, of length at most MaxLen
BaseGenotypes == StringsUpTo(Bases, MaxLen) \ {<<>>}

\* the no-call literal of the raw file formats
NoCall == <<"-", "-">>

\* str.upper() on one character
Upper(c) ==
    CASE c = "a" -> "A" [] c = "c" -> "C" [] c = "g" -> "G" [] c = "t" -> "T"
      [] c = "n" -> "N"
      [] OTHER -> c

UpperStr(s) == [i \in DOMAIN s |-> Upper(s[i])]

Reversed(s) == [i \in DOMAIN s |-> s[Len(s) + 1 - i]]

SetOf(s) == {s[i] : i \in DOMAIN s}

----------------------------------------------------------------------------
(* The genotype store (snps.SNPs.snps): rows indexed by rsid *)

AbsentRow == [present |-> FALSE, isna |-> FALSE, genotype |-> <<>>]
NaNRow == [present |-> TRUE, isna |-> TRUE, genotype |-> <<>>]
CallRow(g) == [present |-> TRUE, isna |-> FALSE, genotype |-> g]

----------------------------------------------------------------------------
(* athletic_score.py: the effect catalog *)

ATHLETIC_SNPS ==
  <<
     [key |-> "rs1815739", rsid |-> "rs1815739", category |-> "muscle_energy", endurance_alleles |-> <<"T">>, power_alleles |-> <<"C">>, effect_size |-> 150],
     [key |-> "rs4343", rsid |-> "rs4343", category |-> "muscle_energy", endurance_alleles |-> <<"A">>, power_alleles |-> <<"G">>, effect_size |-> 120],
     [key |-> "rs8192678", rsid |-> "rs8192678", category |-> "muscle_energy", endurance_alleles |-> <<"G">>, power_alleles |-> <<"A">>, effect_size |-> 130],
     [key |-> "rs17602729", rsid |-> "rs17602729", category |-> "muscle_energy", endurance_alleles |-> <<"T">>, power_alleles |-> <<"C">>, effect_size |-> 217],
     [key |-> "rs1805086", rsid |-> "rs1805086", category |-> "muscle_energy", endurance_alleles |-> <<"A">>, power_alleles |-> <<"G">>, effect_size |-> 202],
     [key |-> "rs2228570", rsid |-> "rs2228570", category |-> "muscle_energy", endurance_alleles |-> <<"G">>, power_alleles |-> <<"A">>, effect_size |-> 120],
     [key |-> "rs35767", rsid |-> "rs35767", category |-> "muscle_energy", endurance_alleles |-> <<"C">>, power_alleles |-> <<"T">>, effect_size |-> 130],
     [key |-> "rs8111989", rsid |-> "rs8111989", category |-> "muscle_energy", endurance_alleles |-> <<"A">>, power_alleles |-> <<"G">>, effect_size |-> 110],
     [key |-> "rs2306862", rsid |-> "rs2306862", category |-> "muscle_energy", endurance_alleles |-> <<"T">>, power_alleles |-> <<"C">>, effect_size |-> 130],
     [key |-> "rs2070744", rsid |-> "rs2070744", category |-> "muscle_energy", endurance_alleles |-> <<"T">>, power_alleles |-> <<"C">>, effect_size |-> 110],
     [key |-> "rs2010963", rsid |-> "rs2010963", category |-> "muscle_energy", endurance_alleles |-> <<"C">>, power_alleles |-> <<"G">>, effect_size |-> 110],
     [key |-> "rs1042713", rsid |-> "rs1042713", category |-> "adrenergic", endurance_alleles |-> <<"G">>, power_alleles |-> <<"A">>, effect_size |-> 110],
     [key |-> "rs1042714", rsid |-> "rs1042714", category |-> "adrenergic", endurance_alleles |-> <<"G">>, power_alleles |-> <<"C">>, effect_size |-> 100],
     [key |-> "rs4994", rsid |-> "rs4994", category |-> "adrenergic", endurance_alleles |-> <<"C">>, power_alleles |-> <<"T">>, effect_size |-> 110],
     [key |-> "rs11549465", rsid |-> "rs11549465", category |-> "oxygen", endurance_alleles |-> <<"C">>, power_alleles |-> <<"T">>, effect_size |-> 110],
     [key |-> "rs1867785", rsid |-> "rs1867785", category |-> "oxygen", endurance_alleles |-> <<"T">>, power_alleles |-> <<"C">>, effect_size |-> 110],
     [key |-> "rs56721780", rsid |-> "rs56721780", category |-> "oxygen", endurance_alleles |-> <<"C">>, power_alleles |-> <<"G">>, effect_size |-> 100],
     [key |-> "rs2016520", rsid |-> "rs2016520", category |-> "oxygen", endurance_alleles |-> <<"C">>, power_alleles |-> <<"T">>, effect_size |-> 120],
     [key |-> "rs1801253", rsid |-> "rs1801253", category |-> "oxygen", endurance_alleles |-> <<"C">>, power_alleles |-> <<"G">>, effect_size |-> 120],
     [key |-> "rs6265", rsid |-> "rs6265", category |-> "neuromotor", endurance_alleles |-> <<"G">>, power_alleles |-> <<"A">>, effect_size |-> 100],
     [key |-> "rs1800497", rsid |-> "rs1800497", category |-> "neuromotor", endurance_alleles |-> <<"C">>, power_alleles |-> <<"T">>, effect_size |-> 100],
     [key |-> "rs4680", rsid |-> "rs4680", category |-> "neuromotor", endurance_alleles |-> <<"A">>, power_alleles |-> <<"G">>, effect_size |-> 100],
     [key |-> "rs2228145", rsid |-> "rs2228145", category |-> "inflammation", endurance_alleles |-> <<"C">>, power_alleles |-> <<"A">>, effect_size |-> 110],
     [key |-> "rs1205", rsid |-> "rs1205", category |-> "inflammation", endurance_alleles |-> <<"T">>, power_alleles |-> <<"C">>, effect_size |-> 120],
     [key |-> "rs1695", rsid |-> "rs1695", category |-> "inflammation", endurance_alleles |-> <<"A">>, power_alleles |-> <<"G">>, effect_size |-> 110],
     [key |-> "rs4880", rsid |-> "rs4880", category |-> "inflammation", endurance_alleles |-> <<"C">>, power_alleles |-> <<"T">>, effect_size |-> 130],
     [key |-> "rs1800795", rsid |-> "rs1800795", category |-> "inflammation", endurance_alleles |-> <<"C">>, power_alleles |-> <<"G">>, effect_size |-> 110],
     [key |-> "rs1800629", rsid |-> "rs1800629", category |-> "inflammation", endurance_alleles |-> <<"G">>, power_alleles |-> <<"A">>, effect_size |-> 110],
     [key |-> "rs12722", rsid |-> "rs12722", category |-> "connective", endurance_alleles |-> <<"T">>, power_alleles |-> <<"C">>, effect_size |-> 110],
     [key |-> "rs1800012", rsid |-> "rs1800012", category |-> "connective", endurance_alleles |-> <<"G">>, power_alleles |-> <<"T">>, effect_size |-> 130],
     [key |-> "rs1800255", rsid |-> "rs1800255", category |-> "connective", endurance_alleles |-> <<"G">>, power_alleles |-> <<"A">>, effect_size |-> 120],
     [key |-> "rs4253778", rsid |-> "rs4253778", category |-> "fuel", endurance_alleles |-> <<"G">>, power_alleles |-> <<"C">>, effect_size |-> 110],
     [key |-> "rs659366", rsid |-> "rs659366", category |-> "fuel", endurance_alleles |-> <<"A">>, power_alleles |-> <<"G">>, effect_size |-> 110],
     [key |-> "rs1049434", rsid |-> "rs1049434", category |-> "fuel", endurance_alleles |-> <<"T">>, power_alleles |-> <<"A">>, effect_size |-> 110],
     [key |-> "rs470117", rsid |-> "rs470117", category |-> "fuel", endurance_alleles |-> <<"A">>, power_alleles |-> <<"G">>, effect_size |-> 110],
     [key |-> "rs9939609", rsid |-> "rs9939609", category |-> "fuel", endurance_alleles |-> <<"T">>, power_alleles |-> <<"A">>, effect_size |-> 120],
     [key |-> "rs6721961", rsid |-> "rs6721961", category |-> "fuel", endurance_alleles |-> <<"C">>, power_alleles |-> <<"A">>, effect_size |-> 110],
     [key |-> "rs1800849", rsid |-> "rs1800849", category |-> "fuel", endurance_alleles |-> <<"T">>, power_alleles |-> <<"C">>, effect_size |-> 110]
  >>

CatalogIndex == DOMAIN ATHLETIC_SNPS

Rsids == {ATHLETIC_SNPS[i].key : i \in CatalogIndex}

\* the keys of category_scores, in declaration order
\* the category keys with 'fuel' left undeclared
Categories_WithoutFuel ==
    <<"muscle_energy", "adrenergic", "oxygen", "neuromotor", "inflammation",
      "connective">>

Categories ==
    <<"muscle_energy", "adrenergic", "oxygen", "neuromotor", "inflammation",
      "connective", "fuel">>

----------------------------------------------------------------------------
(* athletic_score.py: AthleticScorer *)

\* one unit of a score, a weight or a log odds ratio: 10^-6
Micro == 10^6

\* AthleticScorer.complement
complement(allele) ==
    LET a == Upper(allele)
    IN  CASE a = "A" -> "T" [] a = "T" -> "A" [] a = "G" -> "C" [] a = "C" -> "G"
          [] OTHER -> allele

\* math.log of an effect size given in hundredths, in Micro units (rounded)
MathLog(x) ==
    CASE x = 100 -> 0
      [] x = 110 -> 95310
      [] x = 120 -> 182322
      [] x = 130 -> 262364
      [] x = 150 -> 405465
      [] x = 202 -> 703098
      [] x = 217 -> 774727

\* mutant: the weight is the odds ratio itself, not its logarithm
effect_weight_OddsRatio(snp_info) == snp_info.effect_size * (Micro \div 100)

\* effect_weight = math.log(effect_size) if effect_size > 0 else 0
effect_weight(snp_info) ==
    IF snp_info.effect_size > 0 THEN MathLog(snp_info.effect_size) ELSE 0

endurance_complements(snp_info) ==
    {complement(a) : a \in SetOf(snp_info.endurance_alleles)}

\* mutant: the power alleles are not complemented
power_complements_Uncomplemented(snp_info) == SetOf(snp_info.power_alleles)

power_complements(snp_info) ==
    {complement(a) : a \in SetOf(snp_info.power_alleles)}

\* mutant: only the listed endurance alleles count, not their complements
IsEnduranceAllele_ListedOnly(allele, snp_info) ==
    allele \in SetOf(snp_info.endurance_alleles)

\* allele in endurance_alleles or allele in endurance_complements
IsEnduranceAllele(allele, snp_info) ==
    \/ allele \in SetOf(snp_info.endurance_alleles)
    \/ allele \in endurance_complements(snp_info)

\* allele in power_alleles or allele in power_complements
IsPowerAllele(allele, snp_info) ==
    \/ allele \in SetOf(snp_info.power_alleles)
    \/ allele \in power_complements(snp_info)

\* mutant: the counting loop with the power test ahead of the endurance test
RECURSIVE CountLoop_PowerFirst(_, _, _, _)
CountLoop_PowerFirst(genotype, snp_info, i, counts) ==
    IF i > Len(genotype) THEN counts
    ELSE IF IsPowerAllele(genotype[i], snp_info)
    THEN CountLoop_PowerFirst(genotype, snp_info, i + 1, <<counts[1], counts[2] + 1>>)
    ELSE IF IsEnduranceAllele(genotype[i], snp_info)
    THEN CountLoop_PowerFirst(genotype, snp_info, i + 1, <<counts[1] + 1, counts[2]>>)
    ELSE CountLoop_PowerFirst(genotype, snp_info, i + 1, counts)

\* the counting loop  for allele in genotype: if ... elif ... ; the result is
\* <<endurance_count, power_count>>
RECURSIVE CountLoop(_, _, _, _)
CountLoop(genotype, snp_info, i, counts) ==
    IF i > Len(genotype) THEN counts
    ELSE IF IsEnduranceAllele(genotype[i], snp_info)
    THEN CountLoop(genotype, snp_info, i + 1, <<counts[1] + 1, counts[2]>>)
    ELSE IF IsPowerAllele(genotype[i], snp_info)
    THEN CountLoop(genotype, snp_info, i + 1, <<counts[1], counts[2] + 1>>)
    ELSE CountLoop(genotype, snp_info, i + 1, counts)

AlleleCounts(genotype, snp_info) == CountLoop(genotype, snp_info, 1, <<0, 0>>)

\* the if/elif chain that turns the two counts into the SNP's score
GenotypeScore(endurance_count, power_count, weight) ==
    IF endurance_count = 2 THEN weight
    ELSE IF power_count = 2 THEN -weight
    ELSE IF endurance_count = 1 /\ power_count = 1 THEN 0
    ELSE 0

\* ''.join([str(a) for a in endurance_alleles | power_alleles]): the iteration
\* order of the set union is fixed by the process's hash seed
JoinedAlleles(snp_info, seed) ==
    LET e == snp_info.endurance_alleles
        p == [i \in 1..Len(snp_info.power_alleles) |-> snp_info.power_alleles[i]]
        pNew == SelectSeq(p, LAMBDA a : a \notin SetOf(e))
        eNew == SelectSeq(e, LAMBDA a : a \notin SetOf(p))
    IN  IF seed = 0 THEN e \o pNew ELSE p \o eNew

\* Python's  x in y  on strings: x is a contiguous substring of y
IsSubstring(x, y) ==
    \E k \in 0..(Len(y) - Len(x)) : \A i \in DOMAIN x : y[k + i] = x[i]

InterpretationLabel(endurance_count, power_count) ==
    IF endurance_count = 2 THEN "Homozygous endurance"
    ELSE IF power_count = 2 THEN "Homozygous power"
    ELSE IF endurance_count = 1 THEN "Endurance advantage"
    ELSE IF power_count = 1 THEN "Power advantage"
    ELSE "Neutral/heterozygous"

\* AthleticScorer.calculate_snp_score: the returned (score, genotype,
\* interpretation) and the two counts it was computed from
calculate_snp_score(store, snp_info, seed) ==
    LET row == IF snp_info.rsid \in DOMAIN store THEN store[snp_info.rsid] ELSE AbsentRow
    IN  IF ~row.present \/ row.isna
        THEN [score_is_none |-> TRUE, score |-> 0, genotype |-> <<"Missing">>,
              interpretation |-> "Data not available", is_flipped |-> FALSE,
              flipped_genotype |-> <<>>, endurance_count |-> 0, power_count |-> 0]
        ELSE LET genotype == row.genotype
                 counts == AlleleCounts(genotype, snp_info)
             IN  [score_is_none |-> FALSE,
                  score |-> GenotypeScore(counts[1], counts[2], effect_weight(snp_info)),
                  genotype |-> genotype,
                  interpretation |-> InterpretationLabel(counts[1], counts[2]),
                  is_flipped |-> ~IsSubstring(genotype, JoinedAlleles(snp_info, seed)),
                  flipped_genotype |-> [i \in DOMAIN genotype |-> complement(genotype[i])],
                  endurance_count |-> counts[1], power_count |-> counts[2]]

Max(a, b) == IF a >= b THEN a ELSE b
Min(a, b) == IF a <= b THEN a ELSE b

\* max_realistic_score = 3.0
max_realistic_score == 3

\* mutant: the percentage without its upper clamp
Percentage_Unclamped(score) ==
    Max(0, (score * 100) \div max_realistic_score)

\* max(0, min(100, (score / max_realistic_score) * 100)), in Micro percent
Percentage(score) ==
    Max(0, Min(100 * Micro, (score * 100) \div max_realistic_score))

\* the thresholds 1.5 and 0.5 of the athletic type, in Micro units
AthleticType(total_score) ==
    IF total_score > 1500000 THEN "Strong Endurance"
    ELSE IF total_score > 500000 THEN "Moderate Endurance"
    ELSE IF total_score < -1500000 THEN "Strong Power/Sprint"
    ELSE IF total_score < -500000 THEN "Moderate Power/Sprint"
    ELSE "Balanced/Mixed"

\* the locals of calculate_polygenic_score before its loop
LoopStart(missing) ==
    [total_score |-> 0,
     snp_scores |-> <<>>,
     category_scores |-> [c \in SetOf(Categories) |-> 0],
     missing_snps |-> missing,
     raised |-> FALSE]

\* mutant: an iteration that adds the score to the total only
LoopBody_TotalOnly(acc, entry, store, seed) ==
    LET out == calculate_snp_score(store, entry, seed)
    IN  IF out.score_is_none
        THEN [acc EXCEPT !.missing_snps = Append(@, entry.key)]
        ELSE [acc EXCEPT
                 !.total_score = @ + out.score,
                 !.snp_scores = Append(@, [rsid |-> entry.key,
                                           category |-> entry.category,
                                           score |-> out.score,
                                           genotype |-> out.genotype,
                                           interpretation |-> out.interpretation,
                                           is_flipped |-> out.is_flipped])]

\* one iteration of  for rsid, snp_info in ATHLETIC_SNPS.items()
LoopBody(acc, entry, store, seed) ==
    LET out == calculate_snp_score(store, entry, seed)
    IN  IF acc.raised THEN acc
        ELSE IF out.score_is_none
        THEN [acc EXCEPT !.missing_snps = Append(@, entry.key)]
        ELSE IF entry.category \notin DOMAIN acc.category_scores
        THEN [acc EXCEPT !.total_score = @ + out.score, !.raised = TRUE]
        ELSE [acc EXCEPT
                 !.total_score = @ + out.score,
                 !.category_scores[entry.category] = @ + out.score,
                 !.snp_scores = Append(@, [rsid |-> entry.key,
                                           category |-> entry.category,
                                           score |-> out.score,
                                           genotype |-> out.genotype,
                                           interpretation |-> out.interpretation,
                                           is_flipped |-> out.is_flipped])]

RECURSIVE ScoreLoop(_, _, _, _, _)
ScoreLoop(catalog, i, acc, store, seed) ==
    IF i > Len(catalog) THEN acc
    ELSE ScoreLoop(catalog, i + 1, LoopBody(acc, catalog[i], store, seed), store, seed)

\* AthleticScorer.calculate_polygenic_score: the returned dict; missing_snps
\* is the scorer's own list, which the loop appended to
PolygenicResult(store, seed, missing) ==
    LET acc == ScoreLoop(ATHLETIC_SNPS, 1, LoopStart(missing), store, seed)
    IN  [raised |-> acc.raised,
         total_score |-> acc.total_score,
         athletic_type |-> AthleticType(acc.total_score),
         endurance_percentage |-> Percentage(acc.total_score),
         power_percentage |-> Percentage(-acc.total_score),
         snp_scores |-> acc.snp_scores,
         category_scores |-> acc.category_scores,
         missing_snps |-> acc.missing_snps,
         snps_analyzed |-> Len(acc.snp_scores),
         snps_total |-> Len(ATHLETIC_SNPS)]

----------------------------------------------------------------------------
(* The genotype stores the scorer is run on *)

\* the two-character calls of a diploid marker
DiploidGenotypes == {<<a, b>> : a \in Bases, b \in Bases}

\* what a row of the store can hold for the marker under study
FocusRows == {AbsentRow, NaNRow, CallRow(NoCall)} \cup {CallRow(g) : g \in DiploidGenotypes}

\* what the store holds for every other catalog marker
Backgrounds == {"absent", "nocall", "endurance", "power", "heterozygous"}

BackgroundRow(entry, background) ==
    LET e == entry.endurance_alleles[1]
        p == entry.power_alleles[1]
    IN  CASE background = "absent" -> AbsentRow
          [] background = "nocall" -> CallRow(NoCall)
          [] background = "endurance" -> CallRow(<<e, e>>)
          [] background = "power" -> CallRow(<<p, p>>)
          [] background = "heterozygous" -> CallRow(<<e, p>>)

EntryOf(rsid) == ATHLETIC_SNPS[CHOOSE i \in CatalogIndex : ATHLETIC_SNPS[i].key = rsid]

Store(focus, row, background) ==
    [r \in Rsids |-> IF r = focus THEN row ELSE BackgroundRow(EntryOf(r), background)]

----------------------------------------------------------------------------
(* AthleticScorer as a state machine *)

\* no CognitiveScorer is in use
CognitiveIdle ==
    /\ gwas_file = <<>>
    /\ user_snps = <<>>
    /\ sumstats = [kind |-> "None"]
    /\ cog_call = [called |-> FALSE]
    /\ cog_result = [called |-> FALSE]
    /\ cog_report = [called |-> FALSE]

\* get_genotype_interpretation is not in use
InterpIdle ==
    /\ gi_genotype = <<>>
    /\ gi_data = <<>>
    /\ gi_result = [called |-> FALSE]

\* classify has not been called
ClassifyIdle ==
    /\ vote_markers = <<>>
    /\ vote_calls = <<>>
    /\ vote_result = [called |-> FALSE]

\* interpret_apoe_foxo3 has not been called
FoxoIdle ==
    /\ foxo_snps = <<>>
    /\ foxo_result = [called |-> FALSE]

\* no AthleticSNP has been constructed beside the catalog
NoCustomSnp == [constructed |-> FALSE]

NoSnpOut == [called |-> FALSE, rsid |-> "", out |-> calculate_snp_score(<<>>, ATHLETIC_SNPS[1], 0)]

\* AthleticScorer.__init__ on a loaded store
Init ==
    /\ \E focus \in Rsids, row \in FocusRows, background \in Backgrounds :
           snps_data = Store(focus, row, background)
    /\ hash_seed \in {0, 1}
    /\ missing_snps = <<>>
    /\ returned = <<>>
    /\ snp_out = NoSnpOut
    /\ custom_snp = NoCustomSnp
    /\ CognitiveIdle
    /\ InterpIdle
    /\ ClassifyIdle
    /\ FoxoIdle

\* scorer.calculate_polygenic_score()
CalculatePolygenicScore ==
    /\ Len(returned) < MaxCalls
    /\ LET result == PolygenicResult(snps_data, hash_seed, missing_snps)
       IN  /\ missing_snps' = result.missing_snps
           /\ returned' = Append(returned, result)
    /\ UNCHANGED <<snps_data, hash_seed, snp_out, custom_snp>>
    /\ UNCHANGED cognitiveVars
    /\ UNCHANGED interpVars
    /\ UNCHANGED classifyVars
    /\ UNCHANGED foxoVars

Next == CalculatePolygenicScore

Spec == Init /\ [][Next]_vars

----------------------------------------------------------------------------
(* calculate_snp_score called on its own, one marker at a time *)

\* rows the store holds for every marker: any call of up to MaxLen bases
SnpRows == {AbsentRow, NaNRow, CallRow(NoCall)} \cup {CallRow(g) : g \in BaseGenotypes}

InitSnp ==
    /\ \E row \in SnpRows : snps_data = [r \in Rsids |-> row]
    /\ hash_seed \in {0, 1}
    /\ missing_snps = <<>>
    /\ returned = <<>>
    /\ snp_out = NoSnpOut
    /\ custom_snp = NoCustomSnp
    /\ CognitiveIdle
    /\ InterpIdle
    /\ ClassifyIdle
    /\ FoxoIdle

\* scorer.calculate_snp_score(ATHLETIC_SNPS[rsid])
CalculateSnpScore(i) ==
    /\ snp_out' = [called |-> TRUE, rsid |-> ATHLETIC_SNPS[i].key,
                   out |-> calculate_snp_score(snps_data, ATHLETIC_SNPS[i], hash_seed)]
    /\ UNCHANGED <<snps_data, hash_seed, missing_snps, returned, custom_snp>>
    /\ UNCHANGED cognitiveVars
    /\ UNCHANGED interpVars
    /\ UNCHANGED classifyVars
    /\ UNCHANGED foxoVars

NextSnp == \E i \in CatalogIndex : CalculateSnpScore(i)

SpecSnp == InitSnp /\ [][NextSnp]_vars

----------------------------------------------------------------------------
(* cognitive_score.py: numbers *)

(* Betas, contributions and raw scores are integers in units of 10^-3; the  *)
(* standardizer's mean, standard deviation and interval bounds are in units *)
(* of 10^-5 (a beta times an allele frequency in percent); z-scores are in  *)
(* units of 10^-3; percentiles in units of 10^-4 percent.                   *)

\* Python's None, a float NaN, and a finite number
NoneV == [kind |-> "None", v |-> 0]
NaNV == [kind |-> "nan", v |-> 0]
Num(x) == [kind |-> "num", v |-> x]

\* division rounding toward zero
Quot(a, b) == IF a >= 0 THEN a \div b ELSE -((-a) \div b)

Abs(a) == IF a >= 0 THEN a ELSE -a

\* np.sqrt on a non-negative number, rounded down
RECURSIVE SqrtSearch(_, _, _)
SqrtSearch(n, lo, hi) ==
    IF lo >= hi THEN lo
    ELSE LET mid == (lo + hi + 1) \div 2
         IN  IF mid * mid <= n THEN SqrtSearch(n, mid, hi) ELSE SqrtSearch(n, lo, mid - 1)

ISqrt(n) == SqrtSearch(n, 0, Min(n, 46340))

\* scipy.stats.t.ppf(0.975, df) for df = 1..99, in units of 10^-3
TCriticalTable ==
    <<
       12706, 4303, 3182, 2776, 2571, 2447, 2365, 2306, 2262, 2228, 2201,
       2179, 2160, 2145, 2131, 2120, 2110, 2101, 2093, 2086, 2080, 2074,
       2069, 2064, 2060, 2056, 2052, 2048, 2045, 2042, 2040, 2037, 2035,
       2032, 2030, 2028, 2026, 2024, 2023, 2021, 2020, 2018, 2017, 2015,
       2014, 2013, 2012, 2011, 2010, 2009, 2008, 2007, 2006, 2005, 2004,
       2003, 2002, 2002, 2001, 2000, 2000, 1999, 1998, 1998, 1997, 1997,
       1996, 1995, 1995, 1994, 1994, 1993, 1993, 1993, 1992, 1992, 1991,
       1991, 1990, 1990, 1990, 1989, 1989, 1989, 1988, 1988, 1988, 1987,
       1987, 1987, 1986, 1986, 1986, 1986, 1985, 1985, 1985, 1984, 1984
    >>

\* scipy.stats.t.ppf(0.975, df): NaN for df = 0
TCritical(df) == IF df <= 0 THEN NaNV ELSE Num(TCriticalTable[df])

\* scipy.stats.norm.cdf at 0.0, 0.1, ..., 6.0, in units of 10^-6
NormCdfTable ==
    <<
       500000, 539828, 579260, 617911, 655422, 691462, 725747, 758036,
       788145, 815940, 841345, 864334, 884930, 903200, 919243, 933193,
       945201, 955435, 964070, 971283, 977250, 982136, 986097, 989276,
       991802, 993790, 995339, 996533, 997445, 998134, 998650, 999032,
       999313, 999517, 999663, 999767, 999841, 999892, 999928, 999952,
       999968, 999979, 999987, 999991, 999995, 999997, 999998, 999999,
       999999, 1000000, 1000000, 1000000, 1000000, 1000000, 1000000, 1000000,
       1000000, 1000000, 1000000, 1000000, 1000000
    >>

\* scipy.stats.norm.cdf(z) * 100 for z in units of 10^-3, by linear
\* interpolation in the table; in units of 10^-4 percent
NormCdfUpper(z) ==
    IF z >= 6000 THEN 1000000
    ELSE LET k == z \div 100
             lo == NormCdfTable[k + 1]
             hi == NormCdfTable[k + 2]
         IN  lo + ((hi - lo) * (z - k * 100)) \div 100

NormCdfPercent(z) == IF z >= 0 THEN NormCdfUpper(z) ELSE 1000000 - NormCdfUpper(-z)

----------------------------------------------------------------------------
(* cognitive_score.py: CognitiveScorer *)

RECURSIVE SumSeq(_)
SumSeq(s) == IF s = <<>> THEN 0 ELSE s[1] + SumSeq(Tail(s))

\* DataFrame.nsmallest(n, 'Pval'): ascending by Pval, ties in file order
RECURSIVE NSmallest(_, _)
NSmallest(rows, n) ==
    IF n <= 0 \/ rows = <<>> THEN <<>>
    ELSE LET best == CHOOSE i \in DOMAIN rows :
                        \A j \in DOMAIN rows :
                            \/ rows[i].Pval < rows[j].Pval
                            \/ rows[i].Pval = rows[j].Pval /\ i <= j
             rest == [j \in 1..(Len(rows) - 1) |-> IF j < best THEN rows[j] ELSE rows[j + 1]]
         IN  <<rows[best]>> \o NSmallest(rest, n - 1)

\* sumstats[sumstats['Pval'] < p_threshold]
BelowThreshold(rows, p_threshold) ==
    LET keep(r) == r.Pval < p_threshold IN SelectSeq(rows, keep)

\* CognitiveScorer.load_summary_stats: the table it stores in self.sumstats
load_summary_stats(file, p_threshold, top_n) ==
    IF top_n.kind # "None" THEN NSmallest(file, top_n.v) ELSE BelowThreshold(file, p_threshold)

\* the table calculate_polygenic_score works on: loaded only if not already loaded
SumstatsForCall(loaded, file, p_threshold, top_n) ==
    IF loaded.kind = "None"
    THEN [kind |-> "table", rows |-> load_summary_stats(file, p_threshold, top_n)]
    ELSE loaded

\* str(user_snp['genotype'])
StrGenotype(row) == IF row.isna THEN <<"n", "a", "n">> ELSE row.genotype

\* genotype in ['--', '00', 'II', 'DD']
SkippedLiterals == {<<"-", "-">>, <<"0", "0">>, <<"I", "I">>, <<"D", "D">>}

\* mutant: every copy of the allele counted twice
CountOf_Twice(s, a) == 2 * Cardinality({i \in DOMAIN s : s[i] = a})

CountOf(s, a) == Cardinality({i \in DOMAIN s : s[i] = a})

\* complement = {'A': 'T', 'T': 'A', 'C': 'G', 'G': 'C'}; a missing key raises KeyError
ComplementKeys == {"A", "T", "C", "G"}
ComplementOf(a) == CASE a = "A" -> "T" [] a = "T" -> "A" [] a = "C" -> "G" [] a = "G" -> "C"

\* the body of the matching loop for one row of the table that is in the
\* store: whether the row is skipped, and the effect-allele count if not
MatchGenotype(gwas_snp, genotype) ==
    LET effect_allele == Upper(gwas_snp.A1)
        other_allele == Upper(gwas_snp.A2)
        upper == UpperStr(genotype)
        user_alleles == SetOf(upper)
        skip == [skip |-> TRUE, allele_count |-> 0]
    IN  IF genotype \in SkippedLiterals THEN skip
        ELSE IF user_alleles \subseteq {effect_allele, other_allele}
        THEN [skip |-> FALSE, allele_count |-> CountOf(upper, effect_allele)]
        ELSE IF effect_allele \notin ComplementKeys \/ other_allele \notin ComplementKeys
        THEN skip
        ELSE IF user_alleles \subseteq {ComplementOf(effect_allele), ComplementOf(other_allele)}
        THEN [skip |-> FALSE, allele_count |-> CountOf(upper, ComplementOf(effect_allele))]
        ELSE skip

\* whether the loop appends the row to matched_snps
IsMatched(gwas_snp, snps) ==
    /\ gwas_snp.MarkerName \in DOMAIN snps
    /\ ~MatchGenotype(gwas_snp, StrGenotype(snps[gwas_snp.MarkerName])).skip

\* the dict the loop would append if a heterozygous call were neutral
MatchedEntry_NeutralHeterozygote(gwas_snp, snps) ==
    LET genotype == StrGenotype(snps[gwas_snp.MarkerName])
        allele_count == MatchGenotype(gwas_snp, genotype).allele_count
    IN  [rsid |-> gwas_snp.MarkerName,
         genotype |-> genotype,
         effect_allele |-> Upper(gwas_snp.A1),
         allele_count |-> allele_count,
         beta |-> gwas_snp.Beta,
         pval |-> gwas_snp.Pval,
         contribution |-> IF allele_count = 1 THEN 0 ELSE gwas_snp.Beta * allele_count,
         eaf |-> gwas_snp.EAF]

\* the dict the loop appends for a matched row
MatchedEntry(gwas_snp, snps) ==
    LET genotype == StrGenotype(snps[gwas_snp.MarkerName])
        allele_count == MatchGenotype(gwas_snp, genotype).allele_count
    IN  [rsid |-> gwas_snp.MarkerName,
         genotype |-> genotype,
         effect_allele |-> Upper(gwas_snp.A1),
         allele_count |-> allele_count,
         beta |-> gwas_snp.Beta,
         pval |-> gwas_snp.Pval,
         contribution |-> gwas_snp.Beta * allele_count,
         eaf |-> gwas_snp.EAF]

\* matched_snps after the loop over self.sumstats.index
MatchedSnps(rows, snps) ==
    LET keep(r) == IsMatched(r, snps)
        kept == SelectSeq(rows, keep)
    IN  [i \in DOMAIN kept |-> MatchedEntry(kept[i], snps)]

\* sorted(matched_snps, key=lambda x: abs(x['contribution']), reverse=True): stable
RECURSIVE SortedByContribution(_, _)
SortedByContribution(done, todo) ==
    IF todo = <<>> THEN done
    ELSE LET x == todo[1]
             before == Cardinality({i \in DOMAIN done :
                                       Abs(done[i].contribution) >= Abs(x.contribution)})
             placed == SubSeq(done, 1, before) \o <<x>> \o SubSeq(done, before + 1, Len(done))
         IN  SortedByContribution(placed, Tail(todo))

Contributions(matched_snps) == [i \in DOMAIN matched_snps |-> matched_snps[i].contribution]

\* the sums of len(matched_snps) contributions drawn with replacement
RECURSIVE ResampleSums(_, _)
ResampleSums(contributions, draws) ==
    IF draws = 0 THEN {0}
    ELSE {c + r : c \in SetOf(contributions), r \in ResampleSums(contributions, draws - 1)}

\* what the bootstrap branch can compute from its resampled scores: the 2.5th
\* and 97.5th percentile, the mean and the standard deviation (zero exactly
\* when all resampled scores are equal); in units of 10^-5
BootstrapOutcomes(matched_snps) ==
    LET sums == ResampleSums(Contributions(matched_snps), Len(matched_snps))
    IN  {[confidence_low |-> 100 * lo, confidence_high |-> 100 * hi,
          bootstrap_mean |-> 100 * mid, bootstrap_sd |-> 100 * (hi - lo)] :
            <<lo, mid, hi>> \in {t \in sums \X sums \X sums :
                                    t[1] <= t[3] /\ t[2] \in {t[1], t[3]}}}

\* the value no resampling produced (bootstrap not requested)
NoBootstrap ==
    [confidence_low |-> 0, confidence_high |-> 0, bootstrap_mean |-> 0, bootstrap_sd |-> 0]

\* Method 1 of _standardize_score_improved: empirical_z, in units of 10^-3.
\* The mean is a quotient rounded to the unit of the contributions, as the
\* float quotient is rounded to its last place, and is then multiplied back.
EmpiricalZ(matched_snps) ==
    LET contributions == Contributions(matched_snps)
        n == Len(matched_snps)
        raw_score == SumSeq(contributions)
        \* np.mean(contributions) * len(matched_snps)
        empirical_mean == Quot(raw_score, n) * n
        squares == SumSeq([i \in DOMAIN contributions |-> contributions[i] * contributions[i]])
        \* np.std(contributions) * np.sqrt(len(matched_snps))
        empirical_sd == ISqrt((n * squares - raw_score * raw_score) \div n)
    IN  IF empirical_sd > 0 THEN Quot((raw_score - empirical_mean) * 1000, empirical_sd) ELSE 0

\* mutant: the exact empirical z replaced by the one with the rounded mean
EmpiricalZExact_RoundedMean(matched_snps) == EmpiricalZ(matched_snps)

\* Method 1 in exact arithmetic: np.mean(contributions) is the fraction
\* sum(contributions) / n, so raw_score - empirical_mean is the fraction
\* (raw_score * n - sum(contributions) * n) / n
EmpiricalZExact(matched_snps) ==
    LET contributions == Contributions(matched_snps)
        n == Len(matched_snps)
        raw_score == SumSeq(contributions)
        mean_numerator == SumSeq(contributions)
        difference_numerator == raw_score * n - mean_numerator * n
        squares == SumSeq([i \in DOMAIN contributions |-> contributions[i] * contributions[i]])
        empirical_sd == ISqrt((n * squares - raw_score * raw_score) \div n)
    IN  IF empirical_sd > 0
        THEN Quot(difference_numerator * 1000, n * empirical_sd)
        ELSE 0

\* sum of beta * 2 * eaf over the matched markers, in units of 10^-5
ExpectedMean(matched_snps) ==
    SumSeq([i \in DOMAIN matched_snps |-> matched_snps[i].beta * 2 * matched_snps[i].eaf])

\* sum of beta^2 * 2 * eaf * (1 - eaf) over the matched markers, in units of 10^-10
ExpectedVariance(matched_snps) ==
    SumSeq([i \in DOMAIN matched_snps |->
               matched_snps[i].beta * matched_snps[i].beta
                   * 2 * matched_snps[i].eaf * (100 - matched_snps[i].eaf)])

\* expected_sd after the small-sample adjustment  expected_sd *= t_critical / 1.96
ExpectedSd(matched_snps) ==
    LET expected_sd == ISqrt(ExpectedVariance(matched_snps))
        t_critical == TCritical(Len(matched_snps) - 1)
    IN  IF Len(matched_snps) < 100
        THEN IF t_critical.kind = "nan" THEN NaNV
             ELSE Num((expected_sd * t_critical.v) \div 1960)
        ELSE Num(expected_sd)

\* population_z: (raw_score - expected_mean) / expected_sd if expected_sd > 0,
\* else the fallback empirical_z; in units of 10^-3
PopulationZ(matched_snps) ==
    LET raw_score == 100 * SumSeq(Contributions(matched_snps))
        expected_sd == ExpectedSd(matched_snps)
    IN  IF expected_sd.kind = "num" /\ expected_sd.v > 0
        THEN Quot((raw_score - ExpectedMean(matched_snps)) * 1000, expected_sd.v)
        ELSE EmpiricalZ(matched_snps)

\* raw_score -/+ 1.96 * expected_sd
AnalyticBound(raw_score, expected_sd, sign) ==
    IF expected_sd.kind = "nan" THEN NaNV
    ELSE Num(raw_score + sign * ((196 * expected_sd.v) \div 100))

\* CognitiveScorer._standardize_score_improved; resampled is what the bootstrap
\* loop drew (read only when bootstrap is requested)
standardize_score_improved(matched_snps, bootstrap, resampled) ==
    LET raw_score == 100 * SumSeq(Contributions(matched_snps))
        expected_sd == ExpectedSd(matched_snps)
        population_z == PopulationZ(matched_snps)
    IN  [z_score |-> Num(population_z),
         percentile |-> Num(NormCdfPercent(population_z)),
         confidence_low |-> IF bootstrap THEN Num(resampled.confidence_low)
                            ELSE AnalyticBound(raw_score, expected_sd, -1),
         confidence_high |-> IF bootstrap THEN Num(resampled.confidence_high)
                             ELSE AnalyticBound(raw_score, expected_sd, 1),
         bootstrap_mean |-> IF bootstrap THEN Num(resampled.bootstrap_mean) ELSE Num(raw_score),
         bootstrap_sd |-> IF bootstrap THEN Num(resampled.bootstrap_sd) ELSE expected_sd,
         expected_mean |-> Num(ExpectedMean(matched_snps)),
         expected_sd |-> expected_sd,
         empirical_z |-> Num(EmpiricalZ(matched_snps)),
         population_z |-> Num(population_z)]

\* the update of results when standardization is skipped
NotStandardized ==
    [z_score |-> NoneV, percentile |-> NoneV, expected_mean |-> NoneV,
     expected_sd |-> NoneV, confidence_low |-> NoneV, confidence_high |-> NoneV]

\* the minimum coverage, in percent, above which the score is standardized
MinCoveragePercent == 3

\* calculate_z_score and coverage > 3, with coverage = matched / available * 100
StandardizationGate(calculate_z_score, num_matched, num_available) ==
    calculate_z_score /\ num_matched * 100 > MinCoveragePercent * num_available

\* dict.update
Update(d, e) ==
    [k \in DOMAIN d \cup DOMAIN e |-> IF k \in DOMAIN e THEN e[k] ELSE d[k]]

\* 'matched_snps': matched_snps_sorted[:100]
TopContributors == 100

\* CognitiveScorer.calculate_polygenic_score after the table is loaded: the
\* returned dict
PolygenicScore(rows, snps, p_threshold, calculate_z_score, top_n, bootstrap, resampled) ==
    LET matched_snps == MatchedSnps(rows, snps)
        total_score == SumSeq(Contributions(matched_snps))
        sum_of_abs_weights == SumSeq([i \in DOMAIN matched_snps |-> Abs(matched_snps[i].beta)])
        sorted == SortedByContribution(<<>>, matched_snps)
        results ==
            [raw_score |-> total_score,
             normalized_score |-> IF sum_of_abs_weights > 0
                                  THEN Quot(total_score * 1000, sum_of_abs_weights) ELSE 0,
             num_snps_matched |-> Len(matched_snps),
             num_snps_available |-> Len(rows),
             coverage_percent |-> (Len(matched_snps) * 100000) \div Len(rows),
             p_threshold |-> p_threshold,
             matched_snps |-> SubSeq(sorted, 1, Min(TopContributors, Len(sorted))),
             sum_of_weights |-> sum_of_abs_weights,
             top_n |-> top_n]
    IN  IF Len(matched_snps) = 0
        THEN [error |-> "No SNPs could be matched between your data and the GWAS summary statistics"]
        ELSE IF StandardizationGate(calculate_z_score, Len(matched_snps), Len(rows))
        THEN Update(results, standardize_score_improved(matched_snps, bootstrap, resampled))
        ELSE Update(results, NotStandardized)

----------------------------------------------------------------------------
(* An AthleticSNP constructed beside the catalog and scored *)

\* AthleticSNP(rsid, ..., category, endurance_alleles, power_alleles, ...,
\* effect_size): the dataclass stores its arguments as given
AthleticSNP(rsid, category, endurance_alleles, power_alleles, effect_size) ==
    [key |-> rsid, rsid |-> rsid, category |-> category,
     endurance_alleles |-> endurance_alleles, power_alleles |-> power_alleles,
     effect_size |-> effect_size]

\* the allele lists an entry is constructed with: one allele, or two different ones
AlleleLists ==
    {<<a>> : a \in Bases} \cup {<<t[1], t[2]>> : t \in {u \in Bases \X Bases : u[1] # u[2]}}

\* the entries constructed: any pair of allele lists, no effect or odds ratio 1.5
CustomSnps ==
    {AthleticSNP("rs0", "muscle_energy", e, p, w) :
        e \in AlleleLists, p \in AlleleLists, w \in {100, 150}}

\* an entry is constructed and AthleticScorer.__init__ runs on a store that
\* has a homozygous call of the entry's marker, or none
InitCustom ==
    /\ \E info \in CustomSnps : custom_snp = [constructed |-> TRUE, info |-> info]
    /\ \E row \in {AbsentRow} \cup {CallRow(<<a, a>>) : a \in Bases} :
           snps_data = [r \in {"rs0"} |-> row]
    /\ hash_seed = 0
    /\ missing_snps = <<>>
    /\ returned = <<>>
    /\ snp_out = NoSnpOut
    /\ CognitiveIdle
    /\ InterpIdle
    /\ ClassifyIdle
    /\ FoxoIdle

\* scorer.calculate_snp_score(entry)
ScoreCustomSnp ==
    /\ custom_snp.constructed
    /\ snp_out' = [called |-> TRUE, rsid |-> custom_snp.info.rsid,
                   out |-> calculate_snp_score(snps_data, custom_snp.info, hash_seed)]
    /\ UNCHANGED <<snps_data, hash_seed, missing_snps, returned, custom_snp>>
    /\ UNCHANGED cognitiveVars
    /\ UNCHANGED interpVars
    /\ UNCHANGED classifyVars
    /\ UNCHANGED foxoVars

NextCustom == ScoreCustomSnp

SpecCustom == InitCustom /\ [][NextCustom]_vars

----------------------------------------------------------------------------
(* CognitiveScorer as a state machine *)

\* no AthleticScorer is in use
AthleticIdle ==
    /\ snps_data = [r \in Rsids |-> AbsentRow]
    /\ hash_seed = 0
    /\ missing_snps = <<>>
    /\ returned = <<>>
    /\ snp_out = NoSnpOut
    /\ custom_snp = NoCustomSnp

GwasRow(id, a1, a2, eaf, beta, pval) ==
    [MarkerName |-> id, A1 |-> a1, A2 |-> a2, EAF |-> eaf, Beta |-> beta, Pval |-> pval]

\* p-values of the rows of a table, in units of 10^-8, by row number
PvalCycle == <<1, 1000, 4000000, 60000000>>
\* betas, in units of 10^-3, and effect-allele frequencies, in percent
BetaCycle == <<100, -50>>
EafCycle == <<30, 50>>

Cycled(cycle, i) == cycle[((i - 1) % Len(cycle)) + 1]

\* a table of n rows with effect allele A and other allele G
CoverageTable(n) ==
    [i \in 1..n |-> GwasRow(i, "A", "G", Cycled(EafCycle, i), Cycled(BetaCycle, i),
                            Cycled(PvalCycle, i))]

\* betas, in units of 10^-3, of a table whose markers all have the same
\* effect-allele frequency
UniformBetas == {<<100, 100, 30>>, <<0, 0, 0>>}

\* a table of n rows with effect allele A, other allele G and one
\* effect-allele frequency (in percent) for all rows
UniformTable(n, betas, eaf) ==
    [i \in 1..n |-> GwasRow(i, "A", "G", eaf, Cycled(betas, i), 1)]

\* the sizes of the tables: small ones, the ones around 1 row in 33, and the largest
TableSizes == {1, 2, 3, 33, 34, MaxRows}

\* what the store holds for the one row of a one-row table
CognitiveRows ==
    {NaNRow, CallRow(NoCall)}
        \cup {CallRow(g) : g \in DiploidGenotypes}
        \cup {CallRow(<<a>>) : a \in Bases}

\* CognitiveScorer.__init__ on a loaded store, beside a summary-statistics file:
\* a one-row table with any pair of alleles and any call of its marker, a
\* table of n rows whose first k markers are in the store, or a table of
\* uniform allele frequency all of whose markers are in the store with a
\* heterozygous call
InitCog ==
    /\ AthleticIdle
    /\ \/ \E a1 \in Bases, a2 \in Bases, row \in CognitiveRows :
              /\ gwas_file = <<GwasRow(1, a1, a2, 30, 100, 1)>>
              /\ user_snps = [m \in {1} |-> row]
       \/ \E n \in TableSizes, k \in 0..MaxInStore, g \in {<<"A", "G">>, <<"A", "A">>, <<"C", "T">>} :
              /\ k <= n
              /\ gwas_file = CoverageTable(n)
              /\ user_snps = [m \in 1..k |-> CallRow(g)]
       \/ \E n \in 1..MaxInStore, betas \in UniformBetas, eaf \in {0, 30, 100} :
              /\ gwas_file = UniformTable(n, betas, eaf)
              /\ user_snps = [m \in 1..n |-> CallRow(<<"A", "G">>)]
    /\ sumstats = [kind |-> "None"]
    /\ cog_call = [called |-> FALSE]
    /\ cog_result = [called |-> FALSE]
    /\ cog_report = [called |-> FALSE]
    /\ InterpIdle
    /\ ClassifyIdle
    /\ FoxoIdle

\* the arguments the scorer is called with: p-value thresholds 5e-8 and 1.0,
\* no top-N selection or the top 2
PThresholds == {5, 100000000}
TopNs == {NoneV, Num(2)}

\* scorer.calculate_polygenic_score(p_threshold, calculate_z_score, top_n, bootstrap)
CalculateCognitiveScore(p_threshold, calculate_z_score, top_n, bootstrap) ==
    LET table == SumstatsForCall(sumstats, gwas_file, p_threshold, top_n)
        matched_snps == MatchedSnps(table.rows, user_snps)
        resamples ==
            IF bootstrap /\ StandardizationGate(calculate_z_score, Len(matched_snps),
                                                Len(table.rows))
            THEN BootstrapOutcomes(matched_snps) ELSE {NoBootstrap}
    IN  /\ sumstats' = table
        /\ cog_call' = [called |-> TRUE, p_threshold |-> p_threshold,
                        calculate_z_score |-> calculate_z_score, top_n |-> top_n,
                        bootstrap |-> bootstrap]
        /\ \E resampled \in resamples :
               cog_result' = PolygenicScore(table.rows, user_snps, p_threshold,
                                            calculate_z_score, top_n, bootstrap, resampled)
        /\ UNCHANGED <<gwas_file, user_snps, cog_report>>
        /\ UNCHANGED athleticVars
        /\ UNCHANGED interpVars
        /\ UNCHANGED classifyVars
        /\ UNCHANGED foxoVars

NextCog ==
    \E p_threshold \in PThresholds, calculate_z_score \in BOOLEAN, top_n \in TopNs,
       bootstrap \in BOOLEAN :
        CalculateCognitiveScore(p_threshold, calculate_z_score, top_n, bootstrap)

SpecCog == InitCog /\ [][NextCog]_vars

----------------------------------------------------------------------------
(* analyze_cognitive_score: scoring followed by the report *)

\* how a call ends: by returning, or by raising an exception
Returns == [raised |-> FALSE, exception |-> ""]
Raises(exception) == [raised |-> TRUE, exception |-> exception]

\* CognitiveScorer.print_report(results): the statements that can raise are
\* the percentile bar (int() of a NaN) and the comparison  percentile >= 90
\* of the interpretation, which is outside the  percentile is not None  tests
print_report(results) ==
    IF "error" \in DOMAIN results THEN Returns
    ELSE LET percentile == results.percentile
         IN  IF percentile.kind = "nan" THEN Raises("ValueError")
             ELSE IF percentile.kind = "None" THEN Raises("TypeError")
             ELSE Returns

\* analyze_cognitive_score(snps_data, p_threshold, top_n): a new scorer, one
\* call of calculate_polygenic_score with its defaults (calculate_z_score=True,
\* bootstrap=False), then print_report
AnalyzeCognitiveScore(p_threshold, top_n) ==
    LET rows == load_summary_stats(gwas_file, p_threshold, top_n)
        results == PolygenicScore(rows, user_snps, p_threshold, TRUE, top_n, FALSE,
                                  NoBootstrap)
        report == print_report(results)
    IN  /\ cog_report' = [called |-> TRUE, caller |-> "analyze_cognitive_score",
                          p_threshold |-> p_threshold, top_n |-> top_n,
                          results |-> results, raised |-> report.raised,
                          exception |-> report.exception]
        /\ UNCHANGED <<gwas_file, user_snps, sumstats, cog_call, cog_result>>
        /\ UNCHANGED athleticVars
        /\ UNCHANGED interpVars
        /\ UNCHANGED classifyVars
        /\ UNCHANGED foxoVars

NextAnalyze ==
    \E p_threshold \in PThresholds, top_n \in TopNs : AnalyzeCognitiveScore(p_threshold, top_n)

SpecAnalyze == InitCog /\ [][NextAnalyze]_vars

----------------------------------------------------------------------------
(* analyze_top_snps_comparison and analyze_multiple_thresholds: one new      *)
(* scorer and one call of calculate_polygenic_score per selection, each      *)
(* result read into a row of the summary table                               *)

\* top_n_values = [10, 50, 100, 500, 1000, 5000, 10000, None]
top_n_values ==
    <<Num(10), Num(50), Num(100), Num(500), Num(1000), Num(5000), Num(10000), NoneV>>

\* thresholds = [5e-8, 1e-5, 0.001, 0.01, 0.05, 1.0], in units of 10^-8
thresholds == <<5, 1000, 100000, 1000000, 5000000, 100000000>>

\* results[key] for each key the row of the summary table subscripts: a
\* missing key raises KeyError
SubscriptAll(results, keys) ==
    IF keys \subseteq DOMAIN results THEN Returns ELSE Raises("KeyError")

\* how a loop over selections ends, given the result of each selection's call
\* of calculate_polygenic_score: at the first result whose row raises, or
\* after the last; the rows appended, the last result read and the outcome
LoopOutcome(results, keys) ==
    LET raising == {i \in DOMAIN results : SubscriptAll(results[i], keys).raised}
        first == CHOOSE i \in raising : \A j \in raising : i <= j
    IN  IF raising = {}
        THEN [rows |-> Len(results), results |-> results[Len(results)],
              raised |-> FALSE, exception |-> ""]
        ELSE [rows |-> first - 1, results |-> results[first],
              raised |-> TRUE, exception |-> "KeyError"]

\* the loop of analyze_top_snps_comparison: a new scorer per selection,
\* p_threshold=1.0 with top_n, p_threshold=5e-8 without, calculate_z_score=True
TopSnpsLoop(file, snps) ==
    LoopOutcome(
        [i \in DOMAIN top_n_values |->
            LET top_n == top_n_values[i]
                p_threshold == IF top_n.kind # "None" THEN 100000000 ELSE 5
            IN  PolygenicScore(load_summary_stats(file, p_threshold, top_n), snps,
                               p_threshold, TRUE, top_n, FALSE, NoBootstrap)],
        {"num_snps_available", "num_snps_matched", "raw_score"})

\* the loop of analyze_multiple_thresholds: a new scorer per threshold,
\* calculate_z_score=True
ThresholdsLoop(file, snps) ==
    LoopOutcome(
        [i \in DOMAIN thresholds |->
            PolygenicScore(load_summary_stats(file, thresholds[i], NoneV), snps,
                           thresholds[i], TRUE, NoneV, FALSE, NoBootstrap)],
        {"num_snps_matched", "coverage_percent", "raw_score", "normalized_score"})

\* analyze_top_snps_comparison(snps_data)
AnalyzeTopSnpsComparison ==
    LET loop == TopSnpsLoop(gwas_file, user_snps)
    IN  /\ cog_report' = [called |-> TRUE, caller |-> "analyze_top_snps_comparison",
                          rows |-> loop.rows, results |-> loop.results,
                          raised |-> loop.raised, exception |-> loop.exception]
        /\ UNCHANGED <<gwas_file, user_snps, sumstats, cog_call, cog_result>>
        /\ UNCHANGED athleticVars
        /\ UNCHANGED interpVars
        /\ UNCHANGED classifyVars
        /\ UNCHANGED foxoVars

\* analyze_multiple_thresholds(snps_data)
AnalyzeMultipleThresholds ==
    LET loop == ThresholdsLoop(gwas_file, user_snps)
    IN  /\ cog_report' = [called |-> TRUE, caller |-> "analyze_multiple_thresholds",
                          rows |-> loop.rows, results |-> loop.results,
                          raised |-> loop.raised, exception |-> loop.exception]
        /\ UNCHANGED <<gwas_file, user_snps, sumstats, cog_call, cog_result>>
        /\ UNCHANGED athleticVars
        /\ UNCHANGED interpVars
        /\ UNCHANGED classifyVars
        /\ UNCHANGED foxoVars

NextCallers ==
    \/ \E p_threshold \in PThresholds, top_n \in TopNs : AnalyzeCognitiveScore(p_threshold, top_n)
    \/ AnalyzeTopSnpsComparison
    \/ AnalyzeMultipleThresholds

\* the callers are run on the summary-statistics files of at most MaxInStore rows
InitCallers == InitCog /\ Len(gwas_file) <= MaxInStore

SpecCallers == InitCallers /\ [][NextCallers]_vars

----------------------------------------------------------------------------
(* get_genotype_interpretation *)

\* complement_map.get(a, a)
ComplementGet(a) ==
    CASE a = "A" -> "T" [] a = "T" -> "A" [] a = "G" -> "C" [] a = "C" -> "G"
      [] OTHER -> a

\* f"Unknown genotype: {genotype}"
UnknownGenotype(genotype) == [known |-> FALSE, text |-> genotype]

\* get_genotype_interpretation with the strand form tried before the reversed one
get_genotype_interpretation_ComplementFirst(genotype, data) ==
    LET reversed_gt == Reversed(genotype)
        complement_gt == [i \in DOMAIN genotype |-> ComplementGet(genotype[i])]
        reversed_complement == Reversed(complement_gt)
    IN  IF genotype \in DOMAIN data THEN data[genotype]
        ELSE IF complement_gt \in DOMAIN data THEN data[complement_gt]
        ELSE IF reversed_gt \in DOMAIN data THEN data[reversed_gt]
        ELSE IF reversed_complement \in DOMAIN data THEN data[reversed_complement]
        ELSE UnknownGenotype(genotype)

\* get_genotype_interpretation(genotype, data)
get_genotype_interpretation(genotype, data) ==
    LET reversed_gt == Reversed(genotype)
        complement_gt == [i \in DOMAIN genotype |-> ComplementGet(genotype[i])]
        reversed_complement == Reversed(complement_gt)
    IN  IF genotype \in DOMAIN data THEN data[genotype]
        ELSE IF reversed_gt \in DOMAIN data THEN data[reversed_gt]
        ELSE IF complement_gt \in DOMAIN data THEN data[complement_gt]
        ELSE IF reversed_complement \in DOMAIN data THEN data[reversed_complement]
        ELSE UnknownGenotype(genotype)

\* the characters of a genotype string of the store: the bases and the
\* insertion mark
InterpTokens == Bases \cup {"I"}

\* str(snp_data['genotype'].iloc[0]) of a call of up to MaxLen characters
InterpGenotypes == StringsUpTo(InterpTokens, MaxLen) \ {<<>>}

\* the genotype keys a marker's table can have
InterpKeys == DiploidGenotypes \cup {<<"I", "I">>, <<"I", "T">>}

\* the interpretation a table holds under key k: one text per key
EntryText(k) == [known |-> TRUE, text |-> k]

\* the tables: up to MaxKeys genotype keys, each with its own interpretation
InterpTables ==
    {[k \in keys |-> EntryText(k)] :
        keys \in {ks \in SUBSET InterpKeys : Cardinality(ks) <= MaxKeys}}

\* analyze_category reaches a marker whose call is in the store
InitInterp ==
    /\ AthleticIdle
    /\ CognitiveIdle
    /\ gi_genotype \in InterpGenotypes
    /\ gi_data \in InterpTables
    /\ gi_result = [called |-> FALSE]
    /\ ClassifyIdle
    /\ FoxoIdle

\* interpretation = get_genotype_interpretation(genotype, data)
GetGenotypeInterpretation ==
    /\ ~gi_result.called
    /\ gi_result' = [called |-> TRUE,
                     value |-> get_genotype_interpretation(gi_genotype, gi_data)]
    /\ UNCHANGED <<gi_genotype, gi_data>>
    /\ UNCHANGED athleticVars
    /\ UNCHANGED cognitiveVars
    /\ UNCHANGED classifyVars
    /\ UNCHANGED foxoVars

NextInterp == GetGenotypeInterpretation

SpecInterp == InitInterp /\ [][NextInterp]_vars

----------------------------------------------------------------------------
(* The marker-vote classifier behind  dna_analyze.py --no-haplogroup.       *)
(* Contract:  classify(diagnosticMarkers, genotypes) ->                     *)
(* (bestLabel, confidenceTier, allTallies).  A diagnostic marker is a       *)
(* marker id with its alleleToLabelsMap, an ordered list of                 *)
(* <<allele, labels>> pairs; a label entry is a label, flagged negative     *)
(* when it is an exclusion ("not-X").                                       *)

\* diagnostic markers of the largest catalog handed to classify
MaxMarkers == 3

Label(x) == [label |-> x, negative |-> FALSE]
NotLabel(x) == [label |-> x, negative |-> TRUE]

VoteLabels == {"R1b", "I1"}

\* the alleleToLabelsMap of one diagnostic marker
VoteMaps ==
    { << <<"A", <<Label("R1b")>> >> >>,
      << <<"A", <<Label("I1")>> >> >>,
      << <<"A", <<Label("R1b")>> >>, <<"G", <<Label("I1")>> >> >>,
      << <<"A", <<Label("I1"), NotLabel("R1b")>> >> >> }

MarkerIds == <<"m1", "m2", "m3", "m4">>

\* single-character calls of a diagnostic marker, or no row at all
VoteRows == {AbsentRow, CallRow(<<"A">>), CallRow(<<"G">>), CallRow(<<"T">>)}

\* the labels a marker's map associates with an allele (none if not a key)
LabelsOf(map, allele) ==
    LET hits == SelectSeq(map, LAMBDA pair : pair[1] = allele)
    IN  IF hits = <<>> THEN <<>> ELSE hits[1][2]

\* the observed allele of a marker: its single-character call, if it has one
ObservedAllele(marker, genotypes) ==
    LET row == genotypes[marker.markerId]
    IN  IF row.present /\ ~row.isna /\ Len(row.genotype) = 1
        THEN Num(row.genotype[1]) ELSE NoneV

\* the marker is resolved: its observed allele is a key of its map
Resolved(marker, genotypes) ==
    LET a == ObservedAllele(marker, genotypes)
    IN  a.kind = "num" /\ \E i \in DOMAIN marker.alleleToLabels : marker.alleleToLabels[i][1] = a.v

\* the marker casts a vote for the label: it is resolved and one of the labels
\* of its observed allele is that label, not flagged negative
VotesFor(marker, genotypes, label) ==
    /\ Resolved(marker, genotypes)
    /\ LET labels == LabelsOf(marker.alleleToLabels, ObservedAllele(marker, genotypes).v)
       IN  \E i \in DOMAIN labels : labels[i] = Label(label)

\* the supporting evidence of a label: marker id and observed allele of each
\* marker that votes for it, in catalog order
Tally(markers, genotypes, label) ==
    LET voters == SelectSeq(markers, LAMBDA m : VotesFor(m, genotypes, label))
    IN  [i \in DOMAIN voters |->
            [markerId |-> voters[i].markerId,
             allele |-> ObservedAllele(voters[i], genotypes).v]]

\* position of a label's first (positive) declaration in the catalog:
\* marker, then allele, then place in the allele's label list
DeclarationRank(markers, label) ==
    LET places == {<<i, j, k>> \in (DOMAIN markers) \X (1..2) \X (1..2) :
                      /\ j \in DOMAIN markers[i].alleleToLabels
                      /\ k \in DOMAIN markers[i].alleleToLabels[j][2]
                      /\ markers[i].alleleToLabels[j][2][k] = Label(label)}
        ranks == {p[1] * 100 + p[2] * 10 + p[3] : p \in places}
    IN  IF ranks = {} THEN 0 ELSE CHOOSE r \in ranks : \A q \in ranks : r <= q

\* >= 3 supporting markers: high; exactly 2: medium; exactly 1: low
ConfidenceTier_TwoIsHigh(supporting) ==
    IF supporting >= 2 THEN "high"
    ELSE IF supporting = 1 THEN "low"
    ELSE "insufficient evidence"

ConfidenceTier(supporting) ==
    IF supporting >= 3 THEN "high"
    ELSE IF supporting = 2 THEN "medium"
    ELSE IF supporting = 1 THEN "low"
    ELSE "insufficient evidence"

NoClassification == "no classification"

\* classify: the label with the most supporting markers, ties broken by
\* catalog declaration order; no classification when no label has a vote
classify(diagnosticMarkers, genotypes) ==
    LET allTallies == [l \in VoteLabels |-> Tally(diagnosticMarkers, genotypes, l)]
        voted == {l \in VoteLabels : allTallies[l] # <<>>}
        most == {l \in voted : \A o \in voted : Len(allTallies[o]) <= Len(allTallies[l])}
        best == CHOOSE l \in most :
                    \A o \in most : DeclarationRank(diagnosticMarkers, l)
                                        <= DeclarationRank(diagnosticMarkers, o)
    IN  IF voted = {}
        THEN [bestLabel |-> NoClassification,
              confidenceTier |-> ConfidenceTier(0),
              allTallies |-> allTallies]
        ELSE [bestLabel |-> best,
              confidenceTier |-> ConfidenceTier(Len(allTallies[best])),
              allTallies |-> allTallies]

\* a catalog of 1..MaxMarkers diagnostic markers and a store over their ids
InitClassify ==
    /\ AthleticIdle
    /\ CognitiveIdle
    /\ InterpIdle
    /\ FoxoIdle
    /\ \E n \in 1..MaxMarkers :
        /\ vote_markers \in
              {[i \in 1..n |-> [markerId |-> MarkerIds[i], alleleToLabels |-> maps[i]]] :
                  maps \in [1..n -> VoteMaps]}
        /\ vote_calls \in [{MarkerIds[i] : i \in 1..n} -> VoteRows]
    /\ vote_result = [called |-> FALSE]

Classify ==
    /\ ~vote_result.called
    /\ vote_result' = [called |-> TRUE, value |-> classify(vote_markers, vote_calls)]
    /\ UNCHANGED <<vote_markers, vote_calls>>
    /\ UNCHANGED athleticVars
    /\ UNCHANGED cognitiveVars
    /\ UNCHANGED interpVars
    /\ UNCHANGED foxoVars

NextClassify == Classify

SpecClassify == InitClassify /\ [][NextClassify]_vars

----------------------------------------------------------------------------
(* analyze_dna.py: LD-based prediction of rs2802292 (FOXO3) and its use in   *)
(* interpret_apoe_foxo3.  r2 is in hundredths.                               *)

\* FOXO3_PROXIES: per proxy, the genotype keys of its dict with the predicted
\* genotype of rs2802292, and its r2
FOXO3_PROXIES ==
    << [rsid |-> "rs2802288", r2 |-> 97,
        table |-> << <<<<"T", "T">>, <<"T", "T">>>>, <<<<"G", "T">>, <<"G", "T">>>>,
                     <<<<"G", "G">>, <<"G", "G">>>> >>],
       [rsid |-> "rs2764264", r2 |-> 75,
        table |-> << <<<<"T", "T">>, <<"T", "T">>>>, <<<<"C", "T">>, <<"G", "T">>>>,
                     <<<<"C", "C">>, <<"G", "G">>>> >>],
       [rsid |-> "rs12202234", r2 |-> 92,
        table |-> << <<<<"T", "T">>, <<"T", "T">>>>, <<<<"C", "T">>, <<"G", "T">>>>,
                     <<<<"C", "C">>, <<"G", "G">>>> >>],
       [rsid |-> "rs3800230", r2 |-> 91,
        table |-> << <<<<"A", "A">>, <<"T", "T">>>>, <<<<"A", "G">>, <<"G", "T">>>>,
                     <<<<"G", "G">>, <<"G", "G">>>> >>] >>

\* mutant: no normalization of reversed genotypes
NormalizeProxy_AsGiven(proxy_gt) == proxy_gt

\* if proxy_gt in ['TC', 'CT']: 'CT'  elif proxy_gt in ['GA', 'AG']: 'AG'
NormalizeProxy(proxy_gt) ==
    IF proxy_gt \in {<<"T", "C">>, <<"C", "T">>} THEN <<"C", "T">>
    ELSE IF proxy_gt \in {<<"G", "A">>, <<"A", "G">>} THEN <<"A", "G">>
    ELSE proxy_gt

\* proxy_gt in proxy_info (a store holds no genotype equal to the key 'r2')
InProxyInfo(proxy_info, proxy_gt) ==
    \E j \in DOMAIN proxy_info.table : proxy_info.table[j][1] = proxy_gt

\* proxy_info[proxy_gt]
ProxyInfoGet(proxy_info, proxy_gt) ==
    LET j == CHOOSE k \in DOMAIN proxy_info.table : proxy_info.table[k][1] = proxy_gt
    IN  proxy_info.table[j][2]

\* the proxy is in the store with a call that, normalized, is a key of its dict
ProxyPredicts(proxy_info, snps) ==
    LET proxy_data == snps[proxy_info.rsid]
    IN  /\ proxy_data.present
        /\ ~proxy_data.isna
        /\ InProxyInfo(proxy_info, NormalizeProxy(StrGenotype(proxy_data)))

\* the dict appended to predictions for a proxy
Prediction(proxy_info, snps) ==
    LET proxy_gt == NormalizeProxy(StrGenotype(snps[proxy_info.rsid]))
    IN  [genotype |-> ProxyInfoGet(proxy_info, proxy_gt),
         r2 |-> proxy_info.r2,
         proxy_rsid |-> proxy_info.rsid,
         proxy_genotype |-> proxy_gt]

\* max(predictions, key=lambda x: x['r2']): the first of the largest
MaxByR2(predictions) ==
    LET best == CHOOSE i \in DOMAIN predictions :
                    /\ \A j \in DOMAIN predictions : predictions[j].r2 <= predictions[i].r2
                    /\ \A j \in 1..(i - 1) : predictions[j].r2 < predictions[i].r2
    IN  predictions[best]

\* predict_foxo3_from_ld(snps_obj)
predict_foxo3_from_ld(snps) ==
    LET usable == SelectSeq(FOXO3_PROXIES, LAMBDA proxy_info : ProxyPredicts(proxy_info, snps))
        predictions == [i \in DOMAIN usable |-> Prediction(usable[i], snps)]
        best_prediction == MaxByR2(predictions)
    IN  IF predictions = <<>> THEN [kind |-> "None"]
        ELSE [kind |-> "dict",
              genotype |-> best_prediction.genotype,
              r2 |-> best_prediction.r2,
              num_proxies |-> Len(predictions),
              consensus |-> \A i \in DOMAIN predictions :
                                predictions[i].genotype = best_prediction.genotype,
              method |-> "LD-based prediction",
              proxies |-> predictions]

\* the FOXO3 part of interpret_apoe_foxo3: the genotype of rs2802292 used,
\* whether it is a prediction, and the longevity label derived from it
interpret_apoe_foxo3(snps) ==
    LET rs2802292_data == snps["rs2802292"]
        direct == rs2802292_data.present /\ ~rs2802292_data.isna
        prediction == predict_foxo3_from_ld(snps)
        predicted == ~direct /\ prediction.kind = "dict"
        has_gt == direct \/ predicted
        rs2802292_gt ==
            IF direct THEN StrGenotype(rs2802292_data)
            ELSE IF predicted THEN prediction.genotype
            ELSE <<>>
        foxo3_longevity ==
            IF ~has_gt \/ rs2802292_gt = <<>> THEN "None"
            ELSE IF rs2802292_gt = <<"T", "T">> THEN "STRONG"
            ELSE IF rs2802292_gt \in {<<"G", "T">>, <<"T", "G">>} THEN "MODERATE"
            ELSE "TYPICAL"
    IN  [rs2802292_gt |-> rs2802292_gt,
         rs2802292_predicted |-> predicted,
         rs2802292_prediction_info |-> IF predicted THEN prediction ELSE [kind |-> "None"],
         foxo3_longevity |-> foxo3_longevity]

\* calls a store holds for a proxy marker, or no row, or a missing call
ProxyRows ==
    {AbsentRow, NaNRow} \cup
    {CallRow(g) : g \in {<<"T", "T">>, <<"G", "T">>, <<"T", "G">>, <<"G", "G">>,
                         <<"C", "T">>, <<"T", "C">>, <<"A", "G">>, <<"G", "A">>,
                         <<"C", "C">>, <<"A", "A">>}}

\* what a store holds for rs2802292 itself
TargetRows == {AbsentRow, NaNRow, CallRow(NoCall), CallRow(<<"G", "T">>)}

FoxoRsids == {"rs2802292"} \cup {FOXO3_PROXIES[i].rsid : i \in DOMAIN FOXO3_PROXIES}

InitFoxo ==
    /\ AthleticIdle
    /\ CognitiveIdle
    /\ InterpIdle
    /\ ClassifyIdle
    /\ foxo_snps \in {s \in [FoxoRsids -> ProxyRows \cup TargetRows] :
                         s["rs2802292"] \in TargetRows
                         /\ \A i \in DOMAIN FOXO3_PROXIES : s[FOXO3_PROXIES[i].rsid] \in ProxyRows}
    /\ foxo_result = [called |-> FALSE]

\* prediction = predict_foxo3_from_ld(snps_obj), called on its own
PredictFoxo3FromLd ==
    /\ ~foxo_result.called
    /\ foxo_result' = [called |-> TRUE, function |-> "predict_foxo3_from_ld",
                       value |-> predict_foxo3_from_ld(foxo_snps)]
    /\ UNCHANGED foxo_snps
    /\ UNCHANGED athleticVars
    /\ UNCHANGED cognitiveVars
    /\ UNCHANGED interpVars
    /\ UNCHANGED classifyVars

\* interpret_apoe_foxo3(snps_obj)
InterpretApoeFoxo3 ==
    /\ ~foxo_result.called
    /\ foxo_result' = [called |-> TRUE, function |-> "interpret_apoe_foxo3",
                       value |-> interpret_apoe_foxo3(foxo_snps)]
    /\ UNCHANGED foxo_snps
    /\ UNCHANGED athleticVars
    /\ UNCHANGED cognitiveVars
    /\ UNCHANGED interpVars
    /\ UNCHANGED classifyVars

NextFoxo == PredictFoxo3FromLd \/ InterpretApoeFoxo3

SpecFoxo == InitFoxo /\ [][NextFoxo]_vars

----------------------------------------------------------------------------
(* Vocabulary of the properties *)

\* base-wise Watson-Crick complement of a genotype string (A<->T, C<->G)
WatsonCrick(g) ==
    [i \in DOMAIN g |->
        CASE g[i] = "A" -> "T" [] g[i] = "T" -> "A" [] g[i] = "C" -> "G" [] g[i] = "G" -> "C"
          [] OTHER -> g[i]]

Favorable(info) == SetOf(info.endurance_alleles)
Unfavorable(info) == SetOf(info.power_alleles)

IsCall(row) == row.present /\ ~row.isna

HomozygousFavorable(g, info) == Len(g) = 2 /\ g[1] = g[2] /\ g[1] \in Favorable(info)
HomozygousUnfavorable(g, info) == Len(g) = 2 /\ g[1] = g[2] /\ g[1] \in Unfavorable(info)
Heterozygous(g, info) ==
    /\ Len(g) = 2
    /\ \/ g[1] \in Favorable(info) /\ g[2] \in Unfavorable(info)
       \/ g[2] \in Favorable(info) /\ g[1] \in Unfavorable(info)

\* every character of g is one of the marker's alleles
Classified(g, info) == \A i \in DOMAIN g : g[i] \in Favorable(info) \cup Unfavorable(info)

\* no order or strand transform of g classifies all of its characters
Unresolvable(g, info) == ~Classified(g, info) /\ ~Classified(WatsonCrick(g), info)

ScoredRsids(result) == {result.snp_scores[j].rsid : j \in DOMAIN result.snp_scores}
MissingRsids(result) == {result.missing_snps[j] : j \in DOMAIN result.missing_snps}

\* marker r is among the scored markers of result, with contribution v
Contributes(result, r, v) ==
    \E j \in DOMAIN result.snp_scores :
        result.snp_scores[j].rsid = r /\ result.snp_scores[j].score = v

\* the store has no usable call for marker r
NoUsableCall(r) ==
    \/ ~IsCall(snps_data[r])
    \/ Unresolvable(snps_data[r].genotype, EntryOf(r))

----------------------------------------------------------------------------
(* Properties of the additive scorer *)

\* C1: in every returned result, a marker whose two-character genotype over
\* {A,C,G,T} is homozygous for its favorable allele contributes +log(effect_size),
\* one homozygous for its unfavorable allele contributes -log(effect_size), and a
\* heterozygous one contributes 0.
C1_AdditivePolicy ==
    \A k \in DOMAIN returned : \A r \in Rsids :
        LET row == snps_data[r]
            info == EntryOf(r)
            w == MathLog(info.effect_size)
        IN  (IsCall(row) /\ row.genotype \in DiploidGenotypes) =>
               /\ HomozygousFavorable(row.genotype, info) => Contributes(returned[k], r, w)
               /\ HomozygousUnfavorable(row.genotype, info) => Contributes(returned[k], r, -w)
               /\ Heterozygous(row.genotype, info) => Contributes(returned[k], r, 0)

\* C2: in every returned result, a marker that is absent from the store, has a
\* missing call or has an unresolvable genotype is in the missing-markers list
\* and is not among the scored markers.
C2_UnusableIsMissing ==
    \A k \in DOMAIN returned : \A r \in Rsids :
        NoUsableCall(r) =>
            /\ r \in MissingRsids(returned[k])
            /\ r \notin ScoredRsids(returned[k])

\* C3: when no catalog marker has a usable call, every returned result has
\* every category score 0, snps_analyzed = 0 and the missing list holding each
\* catalog marker once.
C3_AllMissingInput ==
    (\A r \in Rsids : NoUsableCall(r)) =>
        \A k \in DOMAIN returned :
            /\ \A c \in SetOf(Categories) : returned[k].category_scores[c] = 0
            /\ returned[k].snps_analyzed = 0
            /\ MissingRsids(returned[k]) = Rsids
            /\ Len(returned[k].missing_snps) = Len(ATHLETIC_SNPS)

\* C4: the counts calculate_snp_score computed for a genotype over {A,C,G,T}
\* are the counts it computes for the Watson-Crick complement of that genotype.
C4_ComplementSymmetry ==
    (snp_out.called /\ ~snp_out.out.score_is_none /\ snp_out.out.genotype \in BaseGenotypes) =>
        <<snp_out.out.endurance_count, snp_out.out.power_count>>
            = AlleleCounts(WatsonCrick(snp_out.out.genotype), EntryOf(snp_out.rsid))

\* C4 witness: a genotype none of whose characters is a listed allele of the
\* marker was counted as two favorable alleles, that is, through the complement
C4_Witness ==
    /\ snp_out.called
    /\ ~snp_out.out.score_is_none
    /\ snp_out.out.genotype \in BaseGenotypes
    /\ Len(snp_out.out.genotype) = 2
    /\ ~\E i \in DOMAIN snp_out.out.genotype :
           snp_out.out.genotype[i] \in Favorable(EntryOf(snp_out.rsid))
                                        \cup Unfavorable(EntryOf(snp_out.rsid))
    /\ snp_out.out.endurance_count = 2

\* the stores of the scenario: one marker with favorable C and unfavorable T
\* carries the call GA, and no other marker is in the store
ScenarioGA(r) ==
    /\ EntryOf(r).endurance_alleles = <<"C">>
    /\ EntryOf(r).power_alleles = <<"T">>
    /\ snps_data[r] = CallRow(<<"G", "A">>)
    /\ \A o \in Rsids \ {r} : snps_data[o] = AbsentRow

\* C7 as stated: in the scenario the marker is recorded as missing: its
\* category score is 0, it is not among the scored markers and it is in the
\* missing list.
C7_GAIsMissing ==
    \A r \in Rsids : ScenarioGA(r) =>
        \A k \in DOMAIN returned :
            /\ returned[k].category_scores[EntryOf(r).category] = 0
            /\ r \notin ScoredRsids(returned[k])
            /\ r \in MissingRsids(returned[k])

\* C7 as amended: in the scenario GA is the complement of CT, so the marker
\* is resolved as heterozygous: its category score is 0, it is among the scored
\* markers with contribution 0 and the label of a one-favorable-allele
\* genotype, and it is not in the missing list.
C7_GAIsHeterozygous ==
    \A r \in Rsids : ScenarioGA(r) =>
        \A k \in DOMAIN returned :
            /\ returned[k].category_scores[EntryOf(r).category] = 0
            /\ Contributes(returned[k], r, 0)
            /\ \A j \in DOMAIN returned[k].snp_scores :
                   returned[k].snp_scores[j].rsid = r =>
                       returned[k].snp_scores[j].interpretation = "Endurance advantage"
            /\ returned[k].snps_analyzed = 1
            /\ r \notin MissingRsids(returned[k])

\* C7 witness: the scenario store has been scored
C7_Witness ==
    /\ \E r \in Rsids : ScenarioGA(r)
    /\ Len(returned) >= 1
    /\ returned[1].snps_analyzed = 1

\* C8: every returned result lists each catalog marker exactly once, among
\* the scored or among the missing markers, so that snps_analyzed +
\* len(missing_snps) = snps_total, and equals the first returned result.
C8_EachMarkerOnce ==
    \A k \in DOMAIN returned :
        /\ returned[k].snps_analyzed + Len(returned[k].missing_snps) = returned[k].snps_total
        /\ ScoredRsids(returned[k]) \cup MissingRsids(returned[k]) = Rsids
        /\ ScoredRsids(returned[k]) \cap MissingRsids(returned[k]) = {}
        /\ returned[k] = returned[1]

----------------------------------------------------------------------------
(* Properties of the continuous-beta scorer *)

\* the call made was answered with the error dict
IsError(result) == "error" \in DOMAIN result

\* the genotype is a string over {A,C,G,T}
OverBases(g) == \A i \in DOMAIN g : g[i] \in Bases

\* C5: for a one-row table and a genotype over {A,C,G,T} of its marker, the
\* call treats the genotype and its base-wise complement alike: both are
\* skipped, or both are matched with the same effect-allele count.
C5_BetaComplementSymmetry ==
    (/\ cog_call.called
     /\ Len(gwas_file) = 1
     /\ 1 \in DOMAIN user_snps
     /\ IsCall(user_snps[1])
     /\ OverBases(user_snps[1].genotype)) =>
        LET complemented == [m \in {1} |-> CallRow(WatsonCrick(user_snps[1].genotype))]
            other == MatchedSnps(sumstats.rows, complemented)
        IN  IF IsError(cog_result) THEN other = <<>>
            ELSE /\ Len(other) = 1
                 /\ other[1].allele_count = cog_result.matched_snps[1].allele_count

\* C9: after every call, the table the call worked on is the selection the
\* call asked for (the top_n most significant rows when top_n is given,
\* otherwise the rows with p-value below the call's p_threshold),
\* num_snps_available counts that selection, and the reported p_threshold is
\* the one of the call.
C9_SelectionOfTheCall ==
    cog_call.called =>
        LET requested == load_summary_stats(gwas_file, cog_call.p_threshold, cog_call.top_n)
        IN  /\ sumstats.rows = requested
            /\ ~IsError(cog_result) =>
                   /\ cog_result.num_snps_available = Len(requested)
                   /\ cog_result.p_threshold = cog_call.p_threshold

\* the six fields the coverage gate decides
GatedFields ==
    {"z_score", "percentile", "expected_mean", "expected_sd", "confidence_low",
     "confidence_high"}

\* C10: in every result with matched markers, standardization was attempted
\* exactly when it was requested and matched / available is at least 3 percent
\* (exactly 3 percent included); otherwise the six gated fields are all None.
C10_CoverageGate ==
    (cog_call.called /\ ~IsError(cog_result)) =>
        LET reached ==
                /\ cog_call.calculate_z_score
                /\ cog_result.num_snps_matched * 100
                       >= MinCoveragePercent * cog_result.num_snps_available
        IN  /\ reached => cog_result.z_score # NoneV /\ cog_result.percentile # NoneV
            /\ ~reached => \A f \in GatedFields : cog_result[f] = NoneV

----------------------------------------------------------------------------
(* Properties of the table resolver *)

\* the forms of a genotype in the order of preference: as given, reversed,
\* base-wise complement, reversed complement
FormsInOrder(g) == <<g, Reversed(g), WatsonCrick(g), Reversed(WatsonCrick(g))>>

\* C6: the call returns the table entry of the first of the four forms
\* (as given, reversed, complement, reversed complement) that is a key of the
\* table, and the text 'Unknown genotype: <genotype>' when none is a key.
C6_FirstFormThatIsAKey ==
    gi_result.called =>
        LET forms == FormsInOrder(gi_genotype)
            hits == {i \in 1..4 : forms[i] \in DOMAIN gi_data}
        IN  IF hits = {} THEN gi_result.value = [known |-> FALSE, text |-> gi_genotype]
            ELSE \E i \in hits :
                     /\ \A j \in hits : i <= j
                     /\ gi_result.value = gi_data[forms[i]]

\* C6 witness: the reversed form and the complement are two different keys of
\* the table, the genotype as given is not, and the call returned the entry
\* of the reversed form
C6_Witness ==
    /\ gi_result.called
    /\ gi_genotype \notin DOMAIN gi_data
    /\ Reversed(gi_genotype) \in DOMAIN gi_data
    /\ WatsonCrick(gi_genotype) \in DOMAIN gi_data
    /\ Reversed(gi_genotype) # WatsonCrick(gi_genotype)
    /\ gi_result.value = gi_data[Reversed(gi_genotype)]

\* C11: whenever analyze_cognitive_score scored at least one marker and the
\* coverage gate left the result unstandardized, the call returned (its report
\* raised nothing) and the returned result has z_score, percentile and both
\* confidence bounds None.
C11_LowCoverageNotFatal ==
    (/\ cog_report.called
     /\ ~IsError(cog_report.results)
     /\ ~StandardizationGate(TRUE, cog_report.results.num_snps_matched,
                             cog_report.results.num_snps_available)) =>
        /\ ~cog_report.raised
        /\ \A f \in {"z_score", "percentile", "confidence_low", "confidence_high"} :
               cog_report.results[f] = NoneV

\* the markers the last call matched
LastMatched == MatchedSnps(sumstats.rows, user_snps)

\* the last call returned a standardized result
Standardized == cog_call.called /\ ~IsError(cog_result) /\ cog_result.z_score # NoneV

\* C12: whenever the expected variance of the matched markers is 0, the
\* z-score of a standardized result is exactly 0.
C12_ZeroVarianceGuard ==
    (Standardized /\ ExpectedVariance(LastMatched) = 0) => cog_result.z_score = Num(0)

\* (raw score - expected mean) / sqrt(expected variance) of the matched
\* markers, in units of 10^-3
FrequencyZ(matched_snps) ==
    Quot((100 * SumSeq(Contributions(matched_snps)) - ExpectedMean(matched_snps)) * 1000,
         ISqrt(ExpectedVariance(matched_snps)))

\* C13: in every standardized result whose matched markers have a positive
\* expected variance, expected_mean is the sum of beta*2f and z_score is
\* (raw score - expected mean) / sqrt(sum of beta^2*2f*(1-f)); for one marker
\* with beta 0.1, f 0.3 and contribution 0.1 that is 0.617.
C13_FrequencyEstimator ==
    (Standardized /\ ExpectedVariance(LastMatched) > 0) =>
        /\ cog_result.expected_mean = Num(ExpectedMean(LastMatched))
        /\ cog_result.z_score = Num(FrequencyZ(LastMatched))

\* C14: in every standardized result with n matched markers, n < 100, the
\* expected standard deviation is the uncorrected one times t(0.975, n-1)/1.96,
\* a number that is at least 1, so the analytic interval is a pair of numbers
\* at least as wide as the uncorrected one; for n >= 100 it is the uncorrected
\* standard deviation.
C14_SmallSampleCorrection ==
    Standardized =>
        LET n == Len(LastMatched)
            uncorrected == ISqrt(ExpectedVariance(LastMatched))
            t_critical == TCritical(n - 1)
        IN  IF n < 100
            THEN /\ t_critical.kind = "num"
                 /\ t_critical.v >= 1960
                 /\ cog_result.expected_sd = Num((uncorrected * t_critical.v) \div 1960)
                 /\ cog_result.expected_sd.v >= uncorrected
                 /\ ~cog_call.bootstrap =>
                        /\ cog_result.confidence_low.kind = "num"
                        /\ cog_result.confidence_high.kind = "num"
            ELSE cog_result.expected_sd = Num(uncorrected)

\* C15: in every standardized result computed without bootstrap, the
\* confidence bounds are numbers at the same non-negative distance from the
\* raw score, and that distance is 1.96 times the reported expected_sd.
C15_AnalyticIntervalSymmetric ==
    (Standardized /\ ~cog_call.bootstrap) =>
        LET raw_score == 100 * cog_result.raw_score
        IN  /\ cog_result.confidence_low.kind = "num"
            /\ cog_result.confidence_high.kind = "num"
            /\ cog_result.expected_sd.kind = "num"
            /\ cog_result.confidence_high.v - raw_score = raw_score - cog_result.confidence_low.v
            /\ cog_result.confidence_high.v - raw_score >= 0
            /\ cog_result.confidence_high.v - raw_score
                   = (196 * cog_result.expected_sd.v) \div 100

\* the row of the loaded table for marker id
RowOf(id) == CHOOSE r \in SetOf(sumstats.rows) : r.MarkerName = id

\* number of copies of allele a in genotype g
Copies(g, a) == Cardinality({i \in DOMAIN g : g[i] = a})

\* the genotype was matched on the complementary strand: some character of it
\* is neither allele of the row
OnComplementStrand(g, row) == ~(SetOf(g) \subseteq {row.A1, row.A2})

\* C16: in every result, each matched marker has a count of 0, 1 or 2 copies
\* of the row's effect allele (of its complement when the genotype was matched
\* on the complementary strand) and the contribution beta * count, and the raw
\* score is the sum of the contributions of exactly the markers of the table
\* whose call was not skipped.
C16_PerAllelePolicy ==
    (cog_call.called /\ ~IsError(cog_result)) =>
        LET entries == cog_result.matched_snps
        IN  /\ \A j \in DOMAIN entries :
                   LET e == entries[j]
                       row == RowOf(e.rsid)
                       designated == IF OnComplementStrand(e.genotype, row)
                                     THEN WatsonCrick(<<row.A1>>)[1] ELSE row.A1
                   IN  /\ e.allele_count = Copies(e.genotype, designated)
                       /\ e.allele_count \in 0..2
                       /\ e.contribution = row.Beta * e.allele_count
            /\ {entries[j].rsid : j \in DOMAIN entries}
                   = {r.MarkerName : r \in {x \in SetOf(sumstats.rows) : IsMatched(x, user_snps)}}
            /\ Len(entries) = cog_result.num_snps_matched
            /\ cog_result.raw_score = SumSeq([j \in DOMAIN entries |-> entries[j].contribution])

\* C16 witness: a heterozygous call matched on the complementary strand
\* contributed one beta, which is the whole raw score
C16_Witness ==
    /\ cog_call.called
    /\ ~IsError(cog_result)
    /\ Len(cog_result.matched_snps) = 1
    /\ OnComplementStrand(cog_result.matched_snps[1].genotype,
                          RowOf(cog_result.matched_snps[1].rsid))
    /\ cog_result.matched_snps[1].allele_count = 1
    /\ cog_result.matched_snps[1].beta # 0
    /\ cog_result.raw_score = cog_result.matched_snps[1].beta

----------------------------------------------------------------------------
(* Further properties of the additive scorer *)

\* the categories with a non-zero score in a result
ContributingCategories(result) == {c \in SetOf(Categories) : result.category_scores[c] # 0}

\* the sum of the category scores of a result
SumOfCategories(result) ==
    SumSeq([i \in DOMAIN Categories |-> result.category_scores[Categories[i]]])

\* C17: every returned result reports the score of each of the seven
\* categories, and when two or more categories have a non-zero score its
\* total_score is not their sum: no scalar of the result adds contributions
\* of different categories.
C17_Orthogonality ==
    \A k \in DOMAIN returned :
        /\ DOMAIN returned[k].category_scores = SetOf(Categories)
        /\ Cardinality(ContributingCategories(returned[k])) >= 2 =>
               returned[k].total_score # SumOfCategories(returned[k])

\* C18: an entry that calculate_snp_score was called with and scored has
\* disjoint favorable and unfavorable allele sets: an entry whose sets overlap
\* was rejected before.
C18_OverlapRejectedAtLoad ==
    (custom_snp.constructed /\ snp_out.called) =>
        SetOf(custom_snp.info.endurance_alleles) \cap SetOf(custom_snp.info.power_alleles) = {}

\* C19: every record of ATHLETIC_SNPS is keyed by its own rsid, has disjoint
\* endurance and power allele sets, has effect_size >= 1 (weight
\* log(effect_size) >= 0) and a category among the seven declared keys, and no
\* call of calculate_polygenic_score fails on an undeclared category.
C19_CatalogInvariant ==
    /\ \A i \in CatalogIndex :
           LET entry == ATHLETIC_SNPS[i]
           IN  /\ entry.key = entry.rsid
               /\ SetOf(entry.endurance_alleles) \cap SetOf(entry.power_alleles) = {}
               /\ entry.effect_size >= 100
               /\ effect_weight(entry) >= 0
               /\ entry.category \in SetOf(Categories)
    /\ Len(Categories) = 7
    /\ \A k \in DOMAIN returned : ~returned[k].raised

\* C19 witness: a call scored every record of the catalog, adding each score
\* to the score of the record's category
C19_Witness ==
    /\ Len(returned) >= 1
    /\ ~returned[1].raised
    /\ returned[1].snps_analyzed = Len(ATHLETIC_SNPS)
    /\ \E c \in SetOf(Categories) : returned[1].category_scores[c] # 0

\* C20: for every scored genotype over {A,C,G,T} of a catalog marker, a
\* genotype made only of the marker's listed alleles is not flagged as flipped,
\* and a genotype that is not, but whose complement is, is flagged.
C20_FlipFlag ==
    (snp_out.called /\ ~snp_out.out.score_is_none /\ snp_out.out.genotype \in BaseGenotypes) =>
        LET g == snp_out.out.genotype
            info == EntryOf(snp_out.rsid)
        IN  /\ Classified(g, info) => ~snp_out.out.is_flipped
            /\ (~Classified(g, info) /\ Classified(WatsonCrick(g), info)) =>
                   snp_out.out.is_flipped

----------------------------------------------------------------------------
(* C21 *)

\* markers of the catalog that vote for the label, counted directly
SupportingMarkers(label) ==
    Cardinality({i \in DOMAIN vote_markers :
        /\ IsCall(vote_calls[vote_markers[i].markerId])
        /\ \E j \in DOMAIN vote_markers[i].alleleToLabels :
            /\ <<vote_markers[i].alleleToLabels[j][1]>> = vote_calls[vote_markers[i].markerId].genotype
            /\ \E k \in DOMAIN vote_markers[i].alleleToLabels[j][2] :
                  vote_markers[i].alleleToLabels[j][2][k] = Label(label)})

NoMarkerResolved ==
    \A i \in DOMAIN vote_markers : ~Resolved(vote_markers[i], vote_calls)

\* C21: the classifier reports the label with the most supporting markers,
\* with confidence tier high for three or more supporting markers, medium for
\* exactly two and low for exactly one, and it reports no classification
\* (insufficient evidence) when no diagnostic marker is resolved.
C21_MostSupportedLabel ==
    vote_result.called =>
        LET r == vote_result.value
        IN  /\ NoMarkerResolved =>
                /\ r.bestLabel = NoClassification
                /\ r.confidenceTier = "insufficient evidence"
            /\ r.bestLabel # NoClassification =>
                /\ r.bestLabel \in VoteLabels
                /\ \A l \in VoteLabels : SupportingMarkers(l) <= SupportingMarkers(r.bestLabel)
                /\ (r.confidenceTier = "high") = (SupportingMarkers(r.bestLabel) >= 3)
                /\ (r.confidenceTier = "medium") = (SupportingMarkers(r.bestLabel) = 2)
                /\ (r.confidenceTier = "low") = (SupportingMarkers(r.bestLabel) = 1)

\* a label wins with two supporting markers against a rival that has one
C21_Witness ==
    /\ vote_result.called
    /\ vote_result.value.confidenceTier = "medium"
    /\ \E l \in VoteLabels : SupportingMarkers(l) = 1

----------------------------------------------------------------------------
(* Properties of calculate_snp_score and of the result dict *)

\* C22: as the docstring of calculate_snp_score has it, the score of a
\* two-character genotype over {A,C,G,T} is +log(OR) when it is homozygous for
\* the beneficial allele, +log(OR)/2 when it is heterozygous and -log(OR) when
\* it is homozygous for the detrimental allele.
C22_DocstringScores ==
    (snp_out.called /\ ~snp_out.out.score_is_none /\ snp_out.out.genotype \in DiploidGenotypes) =>
        LET g == snp_out.out.genotype
            info == EntryOf(snp_out.rsid)
            w == MathLog(info.effect_size)
        IN  /\ HomozygousFavorable(g, info) => snp_out.out.score = w
            /\ Heterozygous(g, info) => 2 * snp_out.out.score = w
            /\ HomozygousUnfavorable(g, info) => snp_out.out.score = -w

\* a set of alleles together with their complements
StrandExpanded(alleles) == alleles \cup {WatsonCrick(<<a>>)[1] : a \in alleles}

\* the marker's favorable and unfavorable alleles are complements of each other
ComplementaryAlleles(info) ==
    \E a \in Favorable(info) : \E b \in Unfavorable(info) : WatsonCrick(<<a>>) = <<b>>

CategorySum(result, c) ==
    LET scored == SelectSeq(result.snp_scores, LAMBDA e : e.category = c)
    IN  SumSeq([j \in DOMAIN scored |-> scored[j].score])

C25_PercentagesAndType ==
    \A k \in DOMAIN returned :
        LET r == returned[k]
            t == r.total_score
        IN  /\ 0 <= r.endurance_percentage /\ r.endurance_percentage <= 100 * Micro
            /\ 0 <= r.power_percentage /\ r.power_percentage <= 100 * Micro
            /\ ~(r.endurance_percentage > 0 /\ r.power_percentage > 0)
            /\ (r.athletic_type = "Strong Endurance") = (2 * t > 3 * Micro)
            /\ (r.athletic_type = "Moderate Endurance") = (2 * t > Micro /\ 2 * t <= 3 * Micro)
            /\ (r.athletic_type = "Strong Power/Sprint") = (2 * t < -3 * Micro)
            /\ (r.athletic_type = "Moderate Power/Sprint") = (2 * t >= -3 * Micro /\ 2 * t < -Micro)
            /\ (r.athletic_type = "Balanced/Mixed") = (2 * t >= -Micro /\ 2 * t <= Micro)

\* a result whose total is beyond the realistic maximum, clamped to 100 percent
C25_Witness ==
    /\ Len(returned) >= 1
    /\ returned[1].total_score > max_realistic_score * Micro
    /\ returned[1].endurance_percentage = 100 * Micro
    /\ returned[1].power_percentage = 0
    /\ returned[1].athletic_type = "Strong Endurance"

\* the catalog markers with effect_size 1.0
NeutralRsids == {ATHLETIC_SNPS[i].key : i \in {j \in CatalogIndex : ATHLETIC_SNPS[j].effect_size = 100}}

----------------------------------------------------------------------------
(* Further properties of the per-allele scorer *)

C28_NoZeroDivisor ==
    (cog_call.called /\ ~IsError(cog_result)) =>
        /\ cog_result.num_snps_available > 0
        /\ cog_result.num_snps_matched >= 1
        /\ cog_result.num_snps_matched <= cog_result.num_snps_available
        /\ cog_result.coverage_percent > 0
        /\ cog_result.coverage_percent <= 100 * 1000
        /\ cog_result.sum_of_weights >= 0
        /\ cog_result.sum_of_weights = 0 => cog_result.normalized_score = 0
        /\ cog_result.sum_of_weights > 0 => Abs(cog_result.normalized_score) <= 2 * 1000

\* a result whose matched markers all have beta 0, at full coverage
C28_Witness ==
    /\ cog_call.called
    /\ ~IsError(cog_result)
    /\ cog_result.num_snps_matched >= 2
    /\ cog_result.sum_of_weights = 0
    /\ cog_result.normalized_score = 0
    /\ cog_result.coverage_percent = 100 * 1000

\* C29: a call that matched no marker is answered with a record holding only
\* 'error', and the caller that consumed that record (analyze_cognitive_score,
\* analyze_multiple_thresholds, analyze_top_snps_comparison) completed without
\* raising.
C29_ErrorRecordIsHandled ==
    (cog_report.called /\ IsError(cog_report.results)) =>
        /\ DOMAIN cog_report.results = {"error"}
        /\ ~cog_report.raised

----------------------------------------------------------------------------
(* Properties of the FOXO3 prediction *)

\* the genotype of proxy i with 'TC' read as 'CT' and 'GA' as 'AG'
ProxyGenotype(i) ==
    LET g == foxo_snps[FOXO3_PROXIES[i].rsid].genotype
    IN  IF g = <<"T", "C">> THEN <<"C", "T">>
        ELSE IF g = <<"G", "A">> THEN <<"A", "G">>
        ELSE g

\* the proxies with a call that is a key of their table
UsableProxies ==
    {i \in DOMAIN FOXO3_PROXIES :
        /\ IsCall(foxo_snps[FOXO3_PROXIES[i].rsid])
        /\ \E j \in DOMAIN FOXO3_PROXIES[i].table :
               FOXO3_PROXIES[i].table[j][1] = ProxyGenotype(i)}

\* what usable proxy i predicts for rs2802292
PredictedBy(i) ==
    LET t == FOXO3_PROXIES[i].table
    IN  t[CHOOSE j \in DOMAIN t : t[j][1] = ProxyGenotype(i)][2]

\* the usable proxy with the highest r2, the first declared on ties
BestProxy ==
    CHOOSE i \in UsableProxies :
        \A j \in UsableProxies :
            \/ FOXO3_PROXIES[j].r2 < FOXO3_PROXIES[i].r2
            \/ FOXO3_PROXIES[j].r2 = FOXO3_PROXIES[i].r2 /\ i <= j

====
